---- MODULE Spec2Model ----
(***************************************************************************)
(* Phase execution pipeline of Workbench-AI: PipelineService.advance_phase *)
(* (data-driven and legacy mode), PhaseExecutionOrchestrator.execute_phase *)
(* and its collaborators ConfigurationLoader, LLMCaller, LLMResponseParser *)
(* and UsageRecorder.                                                      *)
(*                                                                         *)
(* Every request (one call of advance_phase) is run by a worker whose      *)
(* position in the handler is pc[w]; a step of a worker ends at each       *)
(* access to a collaborator or a store, so that two requests on the same   *)
(* pipeline can interleave exactly where the code lets them.               *)
(***************************************************************************)
EXTENDS Integers, Sequences, FiniteSets, TLC

VARIABLES
    env,          \* module globals of pipeline_service.py and the process environment
    configs,      \* phase configuration store: phase_name -> optional PhaseConfiguration row
    store,        \* pipeline store: pipeline_id -> Pipeline row
    transitions,  \* PhaseTransition store (append-only), in creation order
    usage,        \* PipelinePromptUsage store, in creation order
    pc,           \* pc[w]: position of worker w in advance_phase
    loc,          \* loc[w]: local variables of worker w's call
    calls,        \* calls[w]: collaborators invoked by execute_phase in this call, in order
    log,          \* log[w]: log events emitted in this call, in order
    snap,         \* snap[w]: the stores as they were when worker w's call started (history)
    hist,         \* history of the committed update_state calls (history)
    nreq,         \* number of advance_phase requests started
    parser,       \* an LLMResponseParser under construction and use, with its last call
    loader,       \* a ConfigurationLoader with its repository, and its load_config call
    caller,       \* an LLMCaller: what its client does in the call, and what call returns
    recorder,     \* a UsageRecorder with its repository rows, and its record_usage call
    auth          \* the authentication router: pending tokens, sessions, clock, last response

vars == <<env, configs, store, transitions, usage, pc, loc, calls, log, snap, hist, nreq,
          parser, loader, caller, recorder, auth>>

\* the variables of the pipeline service
service_vars ==
    <<env, configs, store, transitions, usage, pc, loc, calls, log, snap, hist, nreq>>

\* the components that are also followed on their own
unit_vars == <<parser, loader, caller, recorder, auth>>

(***************************************************************************)
(* Bounds of the model.                                                    *)
(***************************************************************************)
MaxRequests == 3
MaxSegments == 3
MaxTokens == 2
MaxTime == 3
MaxBlocks == 3

(***************************************************************************)
(* Optional values: None is Python's None for objects, Some(x) a value.    *)
(* An optional string uses the string "None", as Python renders it.        *)
(***************************************************************************)
None == <<>>
Some(x) == <<x>>
IsSome(o) == o # <<>>
Get(o) == o[1]
NoneStr == "None"

Workers == {"w1", "w2"}
PipelineIds == {"pip_1"}
RequestIds == {"pip_1", "pip_x"}

RECURSIVE Join(_, _)
\* sep.join(msgs)
Join(msgs, sep) ==
    IF Len(msgs) = 0 THEN ""
    ELSE IF Len(msgs) = 1 THEN msgs[1]
    ELSE msgs[1] \o sep \o Join(Tail(msgs), sep)

(***************************************************************************)
(* The legacy phase sequence (PipelineState and _get_next_phase).          *)
(***************************************************************************)
LegacyOrder ==
    <<"idle", "pm_phase", "arch_phase", "ba_phase", "dev_phase", "qa_phase",
      "commit_phase", "complete">>

PipelineStates == {LegacyOrder[i] : i \in 1..Len(LegacyOrder)}

IndexOf(p) == CHOOSE i \in 1..Len(LegacyOrder) : LegacyOrder[i] = p

\* mutant of PhaseSequenceGet: qa_phase is skipped
PhaseSequenceSkippingQa(p) ==
    IF p = "dev_phase" THEN "commit_phase"
    ELSE IF p \in PipelineStates /\ IndexOf(p) < Len(LegacyOrder)
    THEN LegacyOrder[IndexOf(p) + 1]
    ELSE NoneStr

\* phase_sequence.get(current_phase): the successor, or None for "complete"
PhaseSequenceGet(p) ==
    IF p \in PipelineStates /\ IndexOf(p) < Len(LegacyOrder)
    THEN LegacyOrder[IndexOf(p) + 1]
    ELSE NoneStr

\* workforce.state.validate_transition: a transition is valid iff it follows the table
validate_transition(cur, nxt) ==
    /\ cur \in PipelineStates
    /\ nxt \in PipelineStates
    /\ IndexOf(cur) < Len(LegacyOrder)
    /\ nxt = LegacyOrder[IndexOf(cur) + 1]

(***************************************************************************)
(* Exceptions.  type is the Python class, text is str(exception).          *)
(***************************************************************************)
\* ExecutionError.__init__ (also PromptBuildError, LLMError, ParseError)
ExecutionErrorOf(type, message, phase_name, pipeline_id) ==
    [type |-> type, message |-> message, phase_name |-> phase_name,
     pipeline_id |-> pipeline_id,
     text |-> "[" \o pipeline_id \o ":" \o phase_name \o "] " \o message]

\* ConfigurationError.__init__
ConfigurationErrorOf(message, phase_name, pipeline_id) ==
    [type |-> "ConfigurationError", message |-> message, phase_name |-> phase_name,
     pipeline_id |-> pipeline_id,
     text |-> IF phase_name # NoneStr /\ phase_name # "" /\
                 pipeline_id # NoneStr /\ pipeline_id # ""
              THEN "[" \o pipeline_id \o ":" \o phase_name \o "] " \o message
              ELSE IF phase_name # NoneStr /\ phase_name # ""
              THEN "[" \o phase_name \o "] " \o message
              ELSE message]

\* any other exception: ValueError, RuntimeError, AttributeError, a store fault, ...
PlainError(type, message) ==
    [type |-> type, message |-> message, phase_name |-> NoneStr,
     pipeline_id |-> NoneStr, text |-> message]

\* raise PromptBuildError(str(e), phase_name, pipeline_id)
PromptBuildErrorOf(e, phase_name, pipeline_id) ==
    ExecutionErrorOf("PromptBuildError", e.message, phase_name, pipeline_id)

\* raise LLMError(f"LLM call failed: {llm_result.error}", phase_name, pipeline_id)
LLMErrorOf(llm_result, phase_name, pipeline_id) ==
    ExecutionErrorOf("LLMError", "LLM call failed: " \o llm_result.error,
                     phase_name, pipeline_id)

\* mutant of ParseErrorOf: only the first diagnostic is embedded
ParseErrorFirstOnly(parse_result, phase_name, pipeline_id) ==
    ExecutionErrorOf("ParseError", "Parse failed: " \o parse_result.error_messages[1],
                     phase_name, pipeline_id)

\* raise ParseError(f"Parse failed: {'; '.join(error_messages)}", phase_name, pipeline_id)
ParseErrorOf(parse_result, phase_name, pipeline_id) ==
    ExecutionErrorOf("ParseError",
                     "Parse failed: " \o Join(parse_result.error_messages, "; "),
                     phase_name, pipeline_id)

\* mutant of UnexpectedErrorOf: the fault's type name is left out
UnexpectedErrorWithoutType(e, phase_name, pipeline_id) ==
    ExecutionErrorOf("ExecutionError", "Unexpected internal error: " \o e.message,
                     phase_name, pipeline_id)

\* the catch-all of execute_phase: ExecutionError naming the fault's type and message
UnexpectedErrorOf(e, phase_name, pipeline_id) ==
    ExecutionErrorOf("ExecutionError",
                     "Unexpected internal error: " \o e.kind \o ": " \o e.message,
                     phase_name, pipeline_id)

\* raise ExecutionError(f"Invalid next_phase configuration: {next_phase}", previous_phase, ...)
InvalidNextPhaseErrorOf(next_phase, previous_phase, pipeline_id) ==
    ExecutionErrorOf("ExecutionError",
                     "Invalid next_phase configuration: " \o next_phase,
                     previous_phase, pipeline_id)

\* isinstance(e, ExecutionError): the class and its three subclasses
IsExecutionError(e) ==
    e.type \in {"ExecutionError", "PromptBuildError", "LLMError", "ParseError"}

(***************************************************************************)
(* Phase configurations.                                                   *)
(***************************************************************************)
ConfigPhases == {"pm_phase", "arch_phase"}

RoleOf(p) ==
    CASE p = "idle" -> "intake"
      [] p = "pm_phase" -> "pm"
      [] p = "arch_phase" -> "architect"
      [] p = "ba_phase" -> "ba"
      [] p = "dev_phase" -> "developer"
      [] p = "qa_phase" -> "qa"
      [] OTHER -> "committer"

ArtifactTypeOf(p) ==
    CASE p = "pm_phase" -> "epic"
      [] p = "arch_phase" -> "architecture"
      [] p = "ba_phase" -> "epic"
      [] OTHER -> "notes"

ArtifactTypes == {"epic", "architecture", "notes"}

\* a row of the phase configuration table
ConfigRow(p, nxt, active) ==
    [phase_name |-> p, role_name |-> RoleOf(p), artifact_type |-> ArtifactTypeOf(p),
     next_phase |-> nxt, is_active |-> active]

\* the rows a configured phase may have: inactive, active with its successor, terminal
RowChoices(p) ==
    {None, Some(ConfigRow(p, PhaseSequenceGet(p), FALSE)),
     Some(ConfigRow(p, PhaseSequenceGet(p), TRUE)), Some(ConfigRow(p, NoneStr, TRUE))}

\* every legacy phase configured and active, commit_phase terminal
FullChain ==
    [p \in PipelineStates |->
        IF p = "complete" THEN None
        ELSE Some(ConfigRow(p, IF p = "commit_phase" THEN NoneStr ELSE PhaseSequenceGet(p),
                            TRUE))]

\* the rows of a store are rows of their own phase
WellFormedStore(cs) ==
    \A p \in DOMAIN cs : IsSome(cs[p]) => Get(cs[p]).phase_name = p

ConfigStores ==
    {cs \in {[p \in PipelineStates |-> IF p \in ConfigPhases THEN f[p] ELSE None] :
                f \in [ConfigPhases -> UNION {RowChoices(p) : p \in ConfigPhases}]} :
        WellFormedStore(cs)}
    \cup {FullChain}

\* mutant of get_by_phase_name: a phase without a row is given the row of pm_phase
get_by_phase_name_defaulting(cs, phase_name) ==
    IF phase_name \in DOMAIN cs /\ cs[phase_name] # None THEN cs[phase_name]
    ELSE IF "pm_phase" \in DOMAIN cs THEN cs["pm_phase"]
    ELSE None

\* PhaseConfigurationRepository.get_by_phase_name
get_by_phase_name(cs, phase_name) ==
    IF phase_name \in DOMAIN cs THEN cs[phase_name] ELSE None

IsActivePhase(cs, phase_name) ==
    /\ IsSome(get_by_phase_name(cs, phase_name))
    /\ Get(get_by_phase_name(cs, phase_name)).is_active

\* mutant of load_config: the is_active check is missing
load_config_ignoring_active(cs, phase_name, fault) ==
    LET row == get_by_phase_name(cs, phase_name) IN
    IF fault \/ row = None THEN
        [ok |-> FALSE, config |-> None, lookups |-> 1,
         logged |-> <<[level |-> "error",
                       event |-> "Phase config not found: " \o phase_name]>>,
         error |-> Some(ConfigurationErrorOf("Phase configuration not found: " \o phase_name,
                                             phase_name, NoneStr))]
    ELSE
        [ok |-> TRUE, config |-> Some(Get(row)), lookups |-> 1, logged |-> <<>>,
         error |-> None]

\* mutant of load_config: a failure of the lookup is reported as a missing row
load_config_swallowing_fault(cs, phase_name, fault) ==
    LET row == get_by_phase_name(cs, phase_name) IN
    IF fault \/ row = None THEN
        [ok |-> FALSE, config |-> None, lookups |-> 1,
         logged |-> <<[level |-> "error",
                       event |-> "Phase config not found: " \o phase_name]>>,
         error |-> Some(ConfigurationErrorOf("Phase configuration not found: " \o phase_name,
                                             phase_name, NoneStr))]
    ELSE IF ~Get(row).is_active THEN
        [ok |-> FALSE, config |-> None, lookups |-> 1,
         logged |-> <<[level |-> "error",
                       event |-> "Phase config not active: " \o phase_name]>>,
         error |-> Some(ConfigurationErrorOf("Phase configuration not active: " \o phase_name,
                                             phase_name, NoneStr))]
    ELSE
        [ok |-> TRUE, config |-> Some(Get(row)), lookups |-> 1, logged |-> <<>>,
         error |-> None]

\* ConfigurationLoader.load_config: fault is a failure of the repository lookup
load_config(cs, phase_name, fault) ==
    LET row == get_by_phase_name(cs, phase_name) IN
    IF fault THEN
        [ok |-> FALSE, config |-> None, lookups |-> 1,
         logged |-> <<[level |-> "error",
                       event |-> "Unexpected error loading config for " \o phase_name
                                 \o ": connection lost"]>>,
         error |-> Some(ConfigurationErrorOf("Failed to load configuration: connection lost",
                                             phase_name, NoneStr))]
    ELSE IF row = None THEN
        [ok |-> FALSE, config |-> None, lookups |-> 1,
         logged |-> <<[level |-> "error",
                       event |-> "Phase config not found: " \o phase_name]>>,
         error |-> Some(ConfigurationErrorOf("Phase configuration not found: " \o phase_name,
                                             phase_name, NoneStr))]
    ELSE IF ~Get(row).is_active THEN
        [ok |-> FALSE, config |-> None, lookups |-> 1,
         logged |-> <<[level |-> "error",
                       event |-> "Phase config not active: " \o phase_name]>>,
         error |-> Some(ConfigurationErrorOf("Phase configuration not active: " \o phase_name,
                                             phase_name, NoneStr))]
    ELSE
        [ok |-> TRUE,
         config |-> Some([phase_name |-> Get(row).phase_name,
                          role_name |-> Get(row).role_name,
                          artifact_type |-> Get(row).artifact_type,
                          next_phase |-> Get(row).next_phase,
                          is_active |-> Get(row).is_active]),
         lookups |-> 1, logged |-> <<>>, error |-> None]

\* a ConfigurationLoader over the repository repo, and the call of load_config in
\* progress: its arguments, the lookups made, the events logged, what it raised or
\* returned
NoLoader ==
    [pc |-> "idle", repo |-> FullChain, phase_name |-> NoneStr, fault |-> FALSE,
     lookups |-> 0, log |-> <<>>, raised |-> None, returned |-> None]

(***************************************************************************)
(* The pipeline store and the transition store.  A Pipeline row holds      *)
(* current_phase and state; state is None, a dict (with or without the key *)
(* "artifacts") or, once update_state has written it, the phase string.    *)
(***************************************************************************)
EmptyMap == [k \in {} |-> ""]

MapPut(m, k, v) == [x \in (DOMAIN m) \cup {k} |-> IF x = k THEN v ELSE m[x]]

StateNone == [kind |-> "none", has_artifacts |-> FALSE, artifacts |-> EmptyMap, value |-> ""]
StateDict(has, arts) ==
    [kind |-> "dict", has_artifacts |-> has, artifacts |-> arts, value |-> ""]
StateStr(v) == [kind |-> "str", has_artifacts |-> FALSE, artifacts |-> EmptyMap, value |-> v]

PipelineRow(phase, state) == [current_phase |-> phase, state |-> state]

\* PipelineRepository.get_by_id: a copy of the row, or None
get_by_id(st, pipeline_id) ==
    IF pipeline_id \in DOMAIN st THEN Some(st[pipeline_id]) ELSE None

\* mutant of update_state: only current_phase is written, the state column is kept
update_state_keeping_state(st, pipeline_id, new_state, new_phase) ==
    [st EXCEPT ![pipeline_id] = PipelineRow(new_phase, @.state)]

\* PipelineRepository.update_state(pipeline_id, new_state, new_phase)
update_state(st, pipeline_id, new_state, new_phase) ==
    [st EXCEPT ![pipeline_id] = PipelineRow(new_phase, StateStr(new_state))]

\* PhaseTransitionRepository.create(pipeline_id, from_state, to_state, reason)
transition_create(ts, pipeline_id, from_state, to_state, reason) ==
    Append(ts, [pipeline_id |-> pipeline_id, from_state |-> from_state,
                to_state |-> to_state, reason |-> reason])

\* the artifact_type keys stored in a pipeline's state
StoredArtifactKeys(row) ==
    IF row.state.kind = "dict" /\ row.state.has_artifacts
    THEN DOMAIN row.state.artifacts ELSE {}

(***************************************************************************)
(* Collaborators of execute_phase.                                         *)
(***************************************************************************)
Artifacts == {"art_a", "art_b"}
OldArtifact == "art_old"

\* RolePromptService.build_prompt: the prompt and its id, or an exception
PromptOutcomes ==
    {[kind |-> "ok", text |-> "You are the role.", id |-> "rp_123", message |-> ""],
     [kind |-> "ValueError", text |-> "", id |-> "", message |-> "No active prompt"],
     [kind |-> "RuntimeError", text |-> "", id |-> "", message |-> "database locked"]}

\* a content block of a response
TextBlock(text) == [type |-> "text", text |-> text]
ToolUseBlock == [type |-> "tool_use", text |-> ""]

\* what client.messages.create does: it returns a response or raises
Response(content, input_tokens, output_tokens) ==
    [kind |-> "response", content |-> content, input_tokens |-> input_tokens,
     output_tokens |-> output_tokens, type |-> "", message |-> ""]

Fault(type, message) ==
    [kind |-> "raise", content |-> <<>>, input_tokens |-> 0, output_tokens |-> 0,
     type |-> type, message |-> message]

\* the provider as the pipeline service meets it: a response, a response without
\* content, a fault
ProviderOutcomes ==
    {Response(<<TextBlock("raw response")>>, 100, 50),
     Response(<<>>, 100, 0),
     Fault("AuthenticationError", "Invalid API key")}

ElapsedChoices == {1000}

\* LLMCallResult of the except branch
LLMCallFailure(type, message, elapsed_ms) ==
    [success |-> FALSE, response_text |-> NoneStr, execution_time_ms |-> elapsed_ms,
     token_usage |-> None, error |-> type \o ": " \o message]

\* mutant of LLMCall: the text of the last content block is returned
LLMCallLastBlock(outcome, elapsed_ms) ==
    IF outcome.kind = "raise" THEN
        LLMCallFailure(outcome.type, outcome.message, elapsed_ms)
    ELSE IF outcome.content = <<>> THEN
        LLMCallFailure("IndexError", "list index out of range", elapsed_ms)
    ELSE IF outcome.content[Len(outcome.content)].type # "text" THEN
        LLMCallFailure("AttributeError", "'ToolUseBlock' object has no attribute 'text'",
                       elapsed_ms)
    ELSE
        [success |-> TRUE, response_text |-> outcome.content[Len(outcome.content)].text,
         execution_time_ms |-> elapsed_ms,
         token_usage |-> Some([input_tokens |-> outcome.input_tokens,
                               output_tokens |-> outcome.output_tokens]),
         error |-> NoneStr]

\* LLMCaller.call
LLMCall(outcome, elapsed_ms) ==
    IF outcome.kind = "raise" THEN
        LLMCallFailure(outcome.type, outcome.message, elapsed_ms)
    ELSE IF outcome.content = <<>> THEN
        LLMCallFailure("IndexError", "list index out of range", elapsed_ms)
    ELSE IF outcome.content[1].type # "text" THEN
        LLMCallFailure("AttributeError", "'ToolUseBlock' object has no attribute 'text'",
                       elapsed_ms)
    ELSE
        [success |-> TRUE, response_text |-> outcome.content[1].text,
         execution_time_ms |-> elapsed_ms,
         token_usage |-> Some([input_tokens |-> outcome.input_tokens,
                               output_tokens |-> outcome.output_tokens]),
         error |-> NoneStr]

\* an LLMCaller and its call: what the client does, the time it takes, the result
NoCaller == [pc |-> "idle", outcome |-> None, elapsed_ms |-> 0, result |-> None]

\* the ParseResult values LLMResponseParser.parse hands to the orchestrator
ParseOutcomes ==
    {[success |-> TRUE, data |-> Some(a), strategy_used |-> "DirectParseStrategy",
      error_messages |-> <<>>] : a \in Artifacts}
    \cup
    {[success |-> FALSE, data |-> None, strategy_used |-> NoneStr, error_messages |-> m] :
        m \in {<<"All strategies failed">>,
               <<"DirectParseStrategy: boom", "FuzzyBoundaryStrategy: bang">>}}

\* the repository write of the pipeline service: it succeeds or raises
WriteFaults == {None, Some("database locked")}

\* logger.warning("Usage record failure", extra={...})
UsageWarning(u, error) ==
    [level |-> "warning", event |-> "usage_record_failure",
     pipeline_id |-> u.pipeline_id, phase_name |-> u.phase_name,
     role_name |-> u.role_name, prompt_id |-> u.prompt_id, error |-> error]

\* mutant of record_usage: the failure is logged and raised again
record_usage_reraising(rows, u, fault) ==
    IF fault = None THEN
        [returned |-> TRUE, raised |-> None,
         rows |-> Append(rows, [pipeline_id |-> u.pipeline_id, prompt_id |-> u.prompt_id]),
         logged |-> <<>>]
    ELSE
        [returned |-> FALSE, raised |-> fault, rows |-> rows,
         logged |-> <<UsageWarning(u, Get(fault))>>]

\* UsageRecorder.record_usage: fault is the message of the exception the repository
\* write raises, if it raises
record_usage(rows, u, fault) ==
    IF fault = None THEN
        [returned |-> TRUE, raised |-> None,
         rows |-> Append(rows, [pipeline_id |-> u.pipeline_id, prompt_id |-> u.prompt_id]),
         logged |-> <<>>]
    ELSE
        [returned |-> FALSE, raised |-> None, rows |-> rows,
         logged |-> <<UsageWarning(u, Get(fault))>>]

\* a UsageRecorder over the rows of its repository, and its call of record_usage
NoRecorder ==
    [pc |-> "idle", rows |-> <<>>, usage |-> None, fault |-> None, log |-> <<>>,
     returned |-> None, raised |-> None]

(***************************************************************************)
(* The authentication router (magic links).  Time is a clock of ticks; a   *)
(* magic-link token is the number of the POST /login that issued it, and 0 *)
(* is a token that was never issued; a session id is the number of the     *)
(* session, and 0 is an id that was never created.                         *)
(***************************************************************************)
\* timedelta(days=7), in ticks
SevenDays == 2

\* an email address is a sequence of pieces: names, "@", ".", and "sp" for a blank
Emails == {<<"ann", "@", "example", ".", "com">>, <<"bob", "@", "example", ".", "com">>}

\* the email field of the login form
EmailInputs ==
    Emails \cup {<<"sp", "Ann", "@", "Example", ".", "com", "sp">>,
                 <<"not-an-address">>, <<"ann", "@", "example">>, <<"@", ".">>}

\* str.lower() of a piece
Lower(piece) ==
    CASE piece = "Ann" -> "ann"
      [] piece = "Example" -> "example"
      [] OTHER -> piece

RECURSIVE EmailStrip(_)
\* str.strip()
EmailStrip(email) ==
    IF email = <<>> THEN email
    ELSE IF Head(email) = "sp" THEN EmailStrip(Tail(email))
    ELSE IF email[Len(email)] = "sp" THEN EmailStrip(SubSeq(email, 1, Len(email) - 1))
    ELSE email

\* email.lower().strip()
Normalize(email) ==
    LET lowered == [i \in DOMAIN email |-> Lower(email[i])] IN EmailStrip(lowered)

\* email.split('@')[1], for an email that holds an '@'
SplitAt1(email) ==
    LET ats == {i \in DOMAIN email : email[i] = "@"}
        first == CHOOSE i \in ats : \A j \in ats : i <= j
        later == {i \in ats : i > first}
        stop == IF later = {} THEN Len(email) + 1
                ELSE CHOOSE i \in later : \A j \in later : i <= j
    IN SubSeq(email, first + 1, stop - 1)

\* not ('@' not in email or '.' not in email.split('@')[1])
ValidEmail(email) ==
    /\ \E i \in DOMAIN email : email[i] = "@"
    /\ \E i \in DOMAIN SplitAt1(email) : SplitAt1(email)[i] = "."

\* bcrypt.hashpw(token.encode(), bcrypt.gensalt())
bcrypt_hashpw(token) == <<"bcrypt", token>>

\* bcrypt.checkpw(token.encode(), token_hash.encode())
bcrypt_checkpw(token, token_hash) == token_hash = <<"bcrypt", token>>

\* Session.is_expired()
is_expired(session, now) == now > session.expires_at

\* a response without a body: a status, a detail, a Location and a Set-Cookie header
EmptyResponse ==
    [status |-> 200, detail |-> NoneStr, location |-> NoneStr, set_cookie |-> None,
     email |-> <<>>, session_id |-> None]

HTTPException(status_code, detail) ==
    [EmptyResponse EXCEPT !.status = status_code, !.detail = detail]

RedirectResponse(url) == [EmptyResponse EXCEPT !.status = 303, !.location = url]

JSONResponse(session) ==
    [EmptyResponse EXCEPT !.email = session.email, !.session_id = Some(session.id)]

\* response.set_cookie(key="session_id", value=session_id, ..., max_age=7 days)
set_cookie(response, session_id) ==
    [response EXCEPT !.set_cookie = Some([value |-> Some(session_id),
                                          max_age |-> SevenDays])]

\* response.delete_cookie("session_id")
delete_cookie(response) ==
    [response EXCEPT !.set_cookie = Some([value |-> None, max_age |-> 0])]

\* what the client receives when the handler returns a Response object: that object;
\* the headers set on the injected Response parameter are merged only into a return
\* value that is not a Response
SentResponse(returned, injected) == returned

\* the router before any request: an empty database
NoAuth ==
    [now |-> 0, pending_tokens |-> {}, sessions |-> {}, issued |-> 0, created |-> 0,
     redeemed |-> {}, closed |-> {}, mailed |-> {}, last |-> None]

(***************************************************************************)
(* LLMResponseParser.  A response text is a sequence of tokens: "sp" and   *)
(* "nl" are whitespace, "fence" is ```, "json" the fence tag, "{" "}" "["  *)
(* "]" brackets, "a" and "b" two object members, "deep" a member whose     *)
(* value is nested beyond the interpreter's recursion limit, "null" the    *)
(* JSON literal, "x" a word of prose; the prefixes are tokens of their own.*)
(* A parsed value is the sequence of its tokens without whitespace.        *)
(***************************************************************************)
IsWs(t) == t \in {"sp", "nl"}

RECURSIVE LStrip(_)
LStrip(text) == IF text # <<>> /\ IsWs(Head(text)) THEN LStrip(Tail(text)) ELSE text

RECURSIVE RStrip(_)
RStrip(text) ==
    IF text # <<>> /\ IsWs(text[Len(text)])
    THEN RStrip(SubSeq(text, 1, Len(text) - 1)) ELSE text

\* str.strip()
Strip(text) == RStrip(LStrip(text))

\* what a strategy's parse gives: a value, None, or an exception it lets through
ValueOutcome(data) == [kind |-> "value", data |-> data, message |-> ""]
NoneOutcome == [kind |-> "none", data |-> <<>>, message |-> ""]
RaiseOutcome(message) == [kind |-> "raise", data |-> <<>>, message |-> message]
DecodeError == [kind |-> "decode_error", data |-> <<>>, message |-> ""]

RecursionErrorText ==
    "maximum recursion depth exceeded while decoding a JSON array from a unicode string"

RECURSIVE ScanValue(_, _)
\* the JSON scanner at position i of s: where the value ends, or how scanning fails
ScanValue(s, i) ==
    IF i > Len(s) THEN [kind |-> "decode_error", end |-> 0]
    ELSE IF s[i] = "null" THEN [kind |-> "value", end |-> i]
    ELSE IF s[i] = "{" THEN
        IF i + 1 <= Len(s) /\ s[i + 1] = "}" THEN [kind |-> "value", end |-> i + 1]
        ELSE IF i + 1 <= Len(s) /\ s[i + 1] = "deep" THEN [kind |-> "raise", end |-> 0]
        ELSE IF i + 2 <= Len(s) /\ s[i + 1] \in {"a", "b"} /\ s[i + 2] = "}"
        THEN [kind |-> "value", end |-> i + 2]
        ELSE [kind |-> "decode_error", end |-> 0]
    ELSE IF s[i] = "[" THEN
        IF i + 1 <= Len(s) /\ s[i + 1] = "]" THEN [kind |-> "value", end |-> i + 1]
        ELSE LET v == ScanValue(s, i + 1) IN
             IF v.kind # "value" THEN v
             ELSE IF v.end + 1 <= Len(s) /\ s[v.end + 1] = "]"
             THEN [kind |-> "value", end |-> v.end + 1]
             ELSE [kind |-> "decode_error", end |-> 0]
    ELSE [kind |-> "decode_error", end |-> 0]

\* json.loads(text)
Loads(text) ==
    LET s == SelectSeq(text, LAMBDA t : ~IsWs(t))
        v == ScanValue(s, 1)
    IN
    IF v.kind = "raise" THEN RaiseOutcome(RecursionErrorText)
    ELSE IF v.kind = "decode_error" \/ v.end < Len(s) THEN DecodeError
    ELSE IF s = <<"null">> THEN NoneOutcome
    ELSE ValueOutcome(s)

\* except (json.JSONDecodeError, ValueError, TypeError): any other exception gets through
CatchDecodeErrors(r) == IF r.kind = "decode_error" THEN NoneOutcome ELSE r

Prefixes == <<"Here is the JSON:", "Result:", "Output:", "Here is the result:">>

RECURSIVE StripPrefixes(_, _)
\* for prefix in prefixes: if text.startswith(prefix): text = text[len(prefix):].strip()
StripPrefixes(text, i) ==
    IF i > Len(Prefixes) THEN text
    ELSE StripPrefixes(IF text # <<>> /\ Head(text) = Prefixes[i]
                       THEN Strip(Tail(text)) ELSE text,
                       i + 1)

\* DirectParseStrategy.parse
DirectParseStrategy(text) ==
    CatchDecodeErrors(Loads(StripPrefixes(Strip(text), 1)))

\* len() of the text a token stands for
TokLen(t) ==
    CASE t \in {"sp", "nl", "{", "}", "[", "]"} -> 1
      [] t = "fence" -> 3
      [] t \in {"json", "null", "x"} -> 4
      [] t \in {"a", "b"} -> 6
      [] t = "deep" -> 2000
      [] t \in {"Result:", "Output:"} -> 7
      [] t = "Here is the JSON:" -> 17
      [] OTHER -> 19

RECURSIVE TextLen(_)
TextLen(text) == IF text = <<>> THEN 0 ELSE TokLen(Head(text)) + TextLen(Tail(text))

\* the position where ```(?:json)? ends when it starts at p
FenceOpenEnd(text, p) ==
    IF p + 1 <= Len(text) /\ text[p + 1] = "json" THEN p + 1 ELSE p

\* the ways ```(?:json)?\s*\n(.*?)\n``` matches at p: <<k, b>> where \s*\n ends at k
\* and the group is text[k+1..b]
FenceMatchesAt(text, p) ==
    IF text[p] # "fence" THEN {}
    ELSE LET j == FenceOpenEnd(text, p) + 1 IN
         {kb \in (j..Len(text)) \X (j..Len(text)) :
             /\ \A m \in j..kb[1] : IsWs(text[m])
             /\ text[kb[1]] = "nl"
             /\ kb[2] >= kb[1]
             /\ kb[2] + 2 <= Len(text)
             /\ text[kb[2] + 1] = "nl"
             /\ text[kb[2] + 2] = "fence"}

\* the match the regex engine returns at p: \s* is greedy, (.*?) is lazy
FenceMatchAt(text, p) ==
    LET ms == FenceMatchesAt(text, p)
        k == CHOOSE k \in {kb[1] : kb \in ms} : \A kb \in ms : kb[1] <= k
        b == CHOOSE b \in {kb[2] : kb \in {m \in ms : m[1] = k}} :
                \A kb \in {m \in ms : m[1] = k} : b <= kb[2]
    IN <<k, b>>

RECURSIVE FindAll(_, _)
\* re.findall(pattern, text, re.DOTALL) from position p: the groups, left to right
FindAll(text, p) ==
    IF p > Len(text) THEN <<>>
    ELSE IF FenceMatchesAt(text, p) = {} THEN FindAll(text, p + 1)
    ELSE LET kb == FenceMatchAt(text, p) IN
         <<SubSeq(text, kb[1] + 1, kb[2])>> \o FindAll(text, kb[2] + 3)

RECURSIVE SortedByLenDesc(_)
\* sorted(matches, key=len, reverse=True): stable, longest first
SortedByLenDesc(matches) ==
    IF matches = <<>> THEN <<>>
    ELSE LET i == CHOOSE i \in 1..Len(matches) :
                    /\ \A m \in 1..Len(matches) : TextLen(matches[m]) <= TextLen(matches[i])
                    /\ \A m \in 1..(i - 1) : TextLen(matches[m]) < TextLen(matches[i])
         IN <<matches[i]>> \o
            SortedByLenDesc(SubSeq(matches, 1, i - 1) \o SubSeq(matches, i + 1, Len(matches)))

RECURSIVE FirstLoadable(_)
\* for match in matches_sorted: try: return json.loads(match.strip()) except ...: continue
FirstLoadable(matches) ==
    IF matches = <<>> THEN NoneOutcome
    ELSE LET r == Loads(Strip(Head(matches))) IN
         IF r.kind = "decode_error" THEN FirstLoadable(Tail(matches)) ELSE r

\* MarkdownFenceStrategy.parse
MarkdownFenceStrategy(text) ==
    LET matches == FindAll(text, 1) IN
    IF matches = <<>> THEN NoneOutcome
    ELSE FirstLoadable(SortedByLenDesc(matches))

\* text.find(tok) and text.rfind(tok): 0 stands for "not found"
Find(text, tok) ==
    IF \E i \in 1..Len(text) : text[i] = tok
    THEN CHOOSE i \in 1..Len(text) : text[i] = tok /\ \A m \in 1..(i - 1) : text[m] # tok
    ELSE 0

RFind(text, tok) ==
    IF \E i \in 1..Len(text) : text[i] = tok
    THEN CHOOSE i \in 1..Len(text) :
            text[i] = tok /\ \A m \in (i + 1)..Len(text) : text[m] # tok
    ELSE 0

\* mutant of FuzzyBoundaryStrategy: a text that starts with its first brace is left
\* to the other strategies
FuzzyBoundaryNeedsProse(text) ==
    LET first_brace == Find(text, "{")
        last_brace == RFind(text, "}")
    IN
    IF first_brace <= 1 \/ last_brace = 0 THEN NoneOutcome
    ELSE CatchDecodeErrors(Loads(SubSeq(text, first_brace, last_brace)))

\* FuzzyBoundaryStrategy.parse
FuzzyBoundaryStrategy(text) ==
    LET first_brace == Find(text, "{")
        last_brace == RFind(text, "}")
    IN
    IF first_brace = 0 \/ last_brace = 0 THEN NoneOutcome
    ELSE CatchDecodeErrors(Loads(SubSeq(text, first_brace, last_brace)))

DefaultStrategies ==
    <<"DirectParseStrategy", "MarkdownFenceStrategy", "FuzzyBoundaryStrategy">>

\* strategy.parse(response_text) of the strategy of class name
StrategyParse(name, text) ==
    CASE name = "DirectParseStrategy" -> DirectParseStrategy(text)
      [] name = "MarkdownFenceStrategy" -> MarkdownFenceStrategy(text)
      [] OTHER -> FuzzyBoundaryStrategy(text)

\* ParseResult(success, data, strategy_used, error_messages)
ParseResult(success, data, strategy_used, error_messages) ==
    [success |-> success, data |-> data, strategy_used |-> strategy_used,
     error_messages |-> error_messages]

RECURSIVE ParseLoopLastWins(_, _, _, _, _)
\* mutant of ParseLoop: the loop goes on after a success and the last success wins
ParseLoopLastWins(strategies, text, i, errors, invoked) ==
    IF i > Len(strategies) THEN
        [result |-> ParseResult(FALSE, None, NoneStr,
                                IF errors # <<>> THEN errors
                                ELSE <<"All strategies failed">>),
         invoked |-> invoked]
    ELSE
        LET strategy_name == strategies[i]
            r == StrategyParse(strategy_name, text)
            rest == ParseLoopLastWins(strategies, text, i + 1,
                        IF r.kind = "raise"
                        THEN Append(errors, strategy_name \o ": " \o r.message)
                        ELSE errors,
                        Append(invoked, strategy_name))
        IN
        IF r.kind = "value" /\ ~rest.result.success
        THEN [result |-> ParseResult(TRUE, Some(r.data), strategy_name, <<>>),
              invoked |-> rest.invoked]
        ELSE rest

RECURSIVE ParseLoopAborting(_, _, _, _, _)
\* mutant of ParseLoop: a strategy that raises ends the loop
ParseLoopAborting(strategies, text, i, errors, invoked) ==
    IF i > Len(strategies) THEN
        [result |-> ParseResult(FALSE, None, NoneStr,
                                IF errors # <<>> THEN errors
                                ELSE <<"All strategies failed">>),
         invoked |-> invoked]
    ELSE
        LET strategy_name == strategies[i]
            r == StrategyParse(strategy_name, text)
        IN
        IF r.kind = "value" THEN
            [result |-> ParseResult(TRUE, Some(r.data), strategy_name, <<>>),
             invoked |-> Append(invoked, strategy_name)]
        ELSE IF r.kind = "raise" THEN
            [result |-> ParseResult(FALSE, None, NoneStr,
                                    Append(errors, strategy_name \o ": " \o r.message)),
             invoked |-> Append(invoked, strategy_name)]
        ELSE
            ParseLoopAborting(strategies, text, i + 1, errors,
                              Append(invoked, strategy_name))

RECURSIVE ParseLoopKeepingErrors(_, _, _, _, _)
\* mutant of ParseLoop: a success still reports the messages collected before it
ParseLoopKeepingErrors(strategies, text, i, errors, invoked) ==
    IF i > Len(strategies) THEN
        [result |-> ParseResult(FALSE, None, NoneStr,
                                IF errors # <<>> THEN errors
                                ELSE <<"All strategies failed">>),
         invoked |-> invoked]
    ELSE
        LET strategy_name == strategies[i]
            r == StrategyParse(strategy_name, text)
        IN
        IF r.kind = "value" THEN
            [result |-> ParseResult(TRUE, Some(r.data), strategy_name, errors),
             invoked |-> Append(invoked, strategy_name)]
        ELSE IF r.kind = "raise" THEN
            ParseLoopKeepingErrors(strategies, text, i + 1,
                                   Append(errors, strategy_name \o ": " \o r.message),
                                   Append(invoked, strategy_name))
        ELSE
            ParseLoopKeepingErrors(strategies, text, i + 1, errors,
                                   Append(invoked, strategy_name))

RECURSIVE ParseLoop(_, _, _, _, _)
\* for strategy in self._strategies: ... ; the strategies invoked are recorded
ParseLoop(strategies, text, i, errors, invoked) ==
    IF i > Len(strategies) THEN
        [result |-> ParseResult(FALSE, None, NoneStr,
                                IF errors # <<>> THEN errors
                                ELSE <<"All strategies failed">>),
         invoked |-> invoked]
    ELSE
        LET strategy_name == strategies[i]
            r == StrategyParse(strategy_name, text)
        IN
        IF r.kind = "value" THEN
            [result |-> ParseResult(TRUE, Some(r.data), strategy_name, <<>>),
             invoked |-> Append(invoked, strategy_name)]
        ELSE IF r.kind = "raise" THEN
            ParseLoop(strategies, text, i + 1,
                      Append(errors, strategy_name \o ": " \o r.message),
                      Append(invoked, strategy_name))
        ELSE
            ParseLoop(strategies, text, i + 1, errors, Append(invoked, strategy_name))

\* a non-string argument of parse
NotAString == [is_str |-> FALSE, text |-> <<>>]
Str(text) == [is_str |-> TRUE, text |-> text]

\* mutant of Parse: a text of whitespace only goes to the strategies
ParseWithoutEmptyCheck(strategies, response_text) ==
    IF ~response_text.is_str THEN
        [result |-> ParseResult(FALSE, None, NoneStr, <<"Invalid input: expected string">>),
         invoked |-> <<>>]
    ELSE ParseLoop(strategies, response_text.text, 1, <<>>, <<>>)

\* LLMResponseParser.parse
Parse(strategies, response_text) ==
    IF ~response_text.is_str THEN
        [result |-> ParseResult(FALSE, None, NoneStr, <<"Invalid input: expected string">>),
         invoked |-> <<>>]
    ELSE IF Strip(response_text.text) = <<>> THEN
        [result |-> ParseResult(FALSE, None, NoneStr, <<"Empty response text">>),
         invoked |-> <<>>]
    ELSE ParseLoop(strategies, response_text.text, 1, <<>>, <<>>)

(***************************************************************************)
(* A parser object: its strategy list, and the argument, the result and    *)
(* the strategies invoked of its last parse call.                          *)
(***************************************************************************)
NoParser ==
    [constructed |-> FALSE, arg |-> None, strategies |-> <<>>, init_error |-> NoneStr,
     input |-> None, result |-> None, invoked |-> <<>>]

\* __init__ without the check of the empty list
NewParserAcceptingEmpty(arg) ==
    LET strategies == IF arg = None THEN DefaultStrategies ELSE Get(arg) IN
    [NoParser EXCEPT !.constructed = TRUE, !.strategies = strategies]

\* LLMResponseParser.__init__: arg is None or Some(list of strategy names)
NewParser(arg) ==
    LET strategies == IF arg = None THEN DefaultStrategies ELSE Get(arg) IN
    IF strategies = <<>>
    THEN [NoParser EXCEPT !.init_error = "Parser requires at least one strategy"]
    ELSE [NoParser EXCEPT !.constructed = TRUE, !.strategies = strategies]

\* the strategy lists a parser is constructed with: the strategies in any order, a
\* part of them, none
StrategyLists ==
    {l \in UNION {[1..n -> {DefaultStrategies[i] : i \in DOMAIN DefaultStrategies}] :
                     n \in 0..Len(DefaultStrategies)} :
        \A i, j \in DOMAIN l : i # j => l[i] # l[j]}

StrategyArgs == {None} \cup {Some(l) : l \in StrategyLists}

\* a fenced block with the content
Fenced(content) == <<"fence", "json", "nl">> \o content \o <<"nl", "fence">>

RECURSIVE Dumps(_, _)
\* the text of a value: json.dumps(value), or json.dumps(value, indent=1) with a line
\* break and the indentation after an opening bracket and a line break before a
\* closing one
Dumps(value, indent) ==
    IF value = <<>> THEN <<>>
    ELSE LET t == Head(value) IN
         (IF ~indent THEN <<t>>
          ELSE IF t \in {"{", "["} THEN <<t, "nl", "sp">>
          ELSE IF t \in {"}", "]"} THEN <<"nl", t>>
          ELSE <<t>>)
         \o Dumps(Tail(value), indent)

\* the structured artifact an LLM is asked for
StructuredArtifacts == {<<"{", "a", "}">>}

\* prose around an artifact: nothing, a blank, a word, a prefix, a placeholder in braces
ProseSegments == {<<>>, <<"sp">>, <<"x">>, <<"Result:">>, <<"{", "x", "}">>}

\* the pieces response texts are made of
Segments ==
    (ProseSegments \ {<<>>})
    \cup {Dumps(a, FALSE) : a \in StructuredArtifacts}
    \cup {Fenced(Dumps(a, TRUE)) : a \in StructuredArtifacts}
    \cup {<<"null">>, <<"{", "deep", "}">>, <<"[", "{", "b", "}", "]">>,
          Fenced(<<"{", "b", "}", "x">>)}

RECURSIVE TextsOf(_)
TextsOf(n) ==
    IF n = 0 THEN {<<>>}
    ELSE LET shorter == TextsOf(n - 1) IN
         shorter \cup {t \o g : t \in shorter, g \in Segments}

ResponseTexts == {NotAString} \cup {Str(t) : t \in TextsOf(MaxSegments)}

(***************************************************************************)
(* Local variables of one advance_phase call.                              *)
(***************************************************************************)
InitLoc ==
    [pid |-> NoneStr, mode |-> NoneStr, pipeline |-> None, phase_name |-> NoneStr,
     version |-> 0, config |-> None, prompt |-> None, llm |-> None, parsed |-> None,
     recorded |-> None, result |-> None, previous_phase |-> NoneStr,
     next_state |-> NoneStr, updated |-> None, caught |-> None, err |-> None,
     response |-> None]

InitialStates(phase) ==
    {StateNone, StateDict(FALSE, EmptyMap),
     StateDict(TRUE, MapPut(EmptyMap, "epic", OldArtifact)), StateStr(phase)}

\* the phases a stored pipeline may be in: an active configuration or "complete"
ValidPhase(cs, phase) == phase = "complete" \/ IsActivePhase(cs, phase)

\* the feature flag, ANTHROPIC_AVAILABLE and whether ANTHROPIC_API_KEY is set
Environments ==
    {e \in [flag : BOOLEAN, sdk : BOOLEAN, api_key : BOOLEAN] :
        ~e.flag => (e.sdk = e.api_key)}

Init ==
    /\ env \in Environments
    /\ configs \in ConfigStores
    /\ \E phase \in PipelineStates :
          /\ ValidPhase(configs, phase)
          /\ \E st \in InitialStates(phase) :
                store = [p \in PipelineIds |-> PipelineRow(phase, st)]
    /\ transitions = <<>>
    /\ usage = <<>>
    /\ pc = [w \in Workers |-> "idle"]
    /\ loc = [w \in Workers |-> InitLoc]
    /\ calls = [w \in Workers |-> <<>>]
    /\ log = [w \in Workers |-> <<>>]
    /\ snap = [w \in Workers |-> [store |-> store, transitions |-> transitions]]
    /\ hist = [updates |-> <<>>, reads |-> <<>>]
    /\ nreq = 0
    /\ parser = NoParser
    /\ loader = NoLoader
    /\ caller = NoCaller
    /\ recorder = NoRecorder
    /\ auth = NoAuth

(***************************************************************************)
(* Steps of a call.                                                        *)
(***************************************************************************)
\* the call of worker w ends by raising e
Raise(w, e) ==
    /\ pc' = [pc EXCEPT ![w] = "failed"]
    /\ loc' = [loc EXCEPT ![w].err = Some(e)]

\* mutant of AdvancePhase: without the SDK the request falls back to the legacy mode
AdvancePhaseFallingBack(w, pid) ==
    /\ pc[w] = "idle"
    /\ nreq < MaxRequests
    /\ nreq' = nreq + 1
    /\ calls' = [calls EXCEPT ![w] = <<>>]
    /\ log' = [log EXCEPT ![w] = <<>>]
    /\ snap' = [snap EXCEPT ![w] = [store |-> store, transitions |-> transitions]]
    /\ LET pipeline == get_by_id(store, pid)
           base == [InitLoc EXCEPT !.pid = pid, !.pipeline = pipeline,
                                   !.version = Len(hist.updates)]
       IN
       IF env.flag /\ env.sdk THEN
           \* _advance_phase_data_driven
           LET l == [base EXCEPT !.mode = "data"] IN
           IF ~env.sdk THEN
               /\ pc' = [pc EXCEPT ![w] = "failed"]
               /\ loc' = [loc EXCEPT ![w] =
                     [l EXCEPT !.pipeline = None,
                               !.err = Some(PlainError("RuntimeError",
                                    "Data-driven orchestration requires anthropic SDK. "
                                    \o "Install with: pip install anthropic"))]]
           ELSE IF pipeline = None THEN
               /\ pc' = [pc EXCEPT ![w] = "failed"]
               /\ loc' = [loc EXCEPT ![w] =
                     [l EXCEPT !.err = Some(PlainError("ValueError",
                                                       "Pipeline not found: " \o pid))]]
           ELSE IF ~env.api_key THEN
               /\ pc' = [pc EXCEPT ![w] = "failed"]
               /\ loc' = [loc EXCEPT ![w] =
                     [l EXCEPT !.err = Some(PlainError("RuntimeError",
                                    "ANTHROPIC_API_KEY environment variable not set"))]]
           ELSE IF Get(pipeline).state.kind = "str" THEN
               \* pipeline.state.get("artifacts", {}) on a str
               /\ pc' = [pc EXCEPT ![w] = "failed"]
               /\ loc' = [loc EXCEPT ![w] =
                     [l EXCEPT !.phase_name = Get(pipeline).current_phase,
                               !.err = Some(PlainError("AttributeError",
                                    "'str' object has no attribute 'get'"))]]
           ELSE
               /\ pc' = [pc EXCEPT ![w] = "load_config"]
               /\ loc' = [loc EXCEPT ![w] =
                     [l EXCEPT !.phase_name = Get(pipeline).current_phase]]
       ELSE
           \* _advance_phase_legacy
           LET l == [base EXCEPT !.mode = "legacy"] IN
           IF pipeline = None THEN
               /\ pc' = [pc EXCEPT ![w] = "failed"]
               /\ loc' = [loc EXCEPT ![w] =
                     [l EXCEPT !.err = Some(PlainError("ValueError",
                                                       "Pipeline not found: " \o pid))]]
           ELSE
               LET cur == Get(pipeline).current_phase
                   nxt == PhaseSequenceGet(cur)
               IN
               IF cur \notin PipelineStates THEN
                   /\ pc' = [pc EXCEPT ![w] = "failed"]
                   /\ loc' = [loc EXCEPT ![w] =
                         [l EXCEPT !.err = Some(PlainError("ValueError",
                                  "'" \o cur \o "' is not a valid PipelineState"))]]
               ELSE IF nxt = NoneStr THEN
                   /\ pc' = [pc EXCEPT ![w] = "failed"]
                   /\ loc' = [loc EXCEPT ![w] =
                         [l EXCEPT !.err = Some(PlainError("ValueError",
                                                  "Cannot advance from " \o cur))]]
               ELSE IF ~validate_transition(cur, nxt) THEN
                   /\ pc' = [pc EXCEPT ![w] = "failed"]
                   /\ loc' = [loc EXCEPT ![w] =
                         [l EXCEPT !.err = Some(PlainError("InvalidStateTransitionError",
                                  "Cannot advance from " \o cur \o " to " \o nxt))]]
               ELSE
                   /\ pc' = [pc EXCEPT ![w] = "legacy_update"]
                   /\ loc' = [loc EXCEPT ![w] =
                         [l EXCEPT !.phase_name = cur, !.previous_phase = cur,
                                   !.next_state = nxt]]
    /\ UNCHANGED <<env, configs, store, transitions, usage, hist>>

\* PipelineService.advance_phase, up to the first access to a collaborator
AdvancePhase(w, pid) ==
    /\ pc[w] = "idle"
    /\ nreq < MaxRequests
    /\ nreq' = nreq + 1
    /\ calls' = [calls EXCEPT ![w] = <<>>]
    /\ log' = [log EXCEPT ![w] = <<>>]
    /\ snap' = [snap EXCEPT ![w] = [store |-> store, transitions |-> transitions]]
    /\ LET pipeline == get_by_id(store, pid)
           base == [InitLoc EXCEPT !.pid = pid, !.pipeline = pipeline,
                                   !.version = Len(hist.updates)]
       IN
       IF env.flag THEN
           \* _advance_phase_data_driven
           LET l == [base EXCEPT !.mode = "data"] IN
           IF ~env.sdk THEN
               /\ pc' = [pc EXCEPT ![w] = "failed"]
               /\ loc' = [loc EXCEPT ![w] =
                     [l EXCEPT !.pipeline = None,
                               !.err = Some(PlainError("RuntimeError",
                                    "Data-driven orchestration requires anthropic SDK. "
                                    \o "Install with: pip install anthropic"))]]
           ELSE IF pipeline = None THEN
               /\ pc' = [pc EXCEPT ![w] = "failed"]
               /\ loc' = [loc EXCEPT ![w] =
                     [l EXCEPT !.err = Some(PlainError("ValueError",
                                                       "Pipeline not found: " \o pid))]]
           ELSE IF ~env.api_key THEN
               /\ pc' = [pc EXCEPT ![w] = "failed"]
               /\ loc' = [loc EXCEPT ![w] =
                     [l EXCEPT !.err = Some(PlainError("RuntimeError",
                                    "ANTHROPIC_API_KEY environment variable not set"))]]
           ELSE IF Get(pipeline).state.kind = "str" THEN
               \* pipeline.state.get("artifacts", {}) on a str
               /\ pc' = [pc EXCEPT ![w] = "failed"]
               /\ loc' = [loc EXCEPT ![w] =
                     [l EXCEPT !.phase_name = Get(pipeline).current_phase,
                               !.err = Some(PlainError("AttributeError",
                                    "'str' object has no attribute 'get'"))]]
           ELSE
               /\ pc' = [pc EXCEPT ![w] = "load_config"]
               /\ loc' = [loc EXCEPT ![w] =
                     [l EXCEPT !.phase_name = Get(pipeline).current_phase]]
       ELSE
           \* _advance_phase_legacy
           LET l == [base EXCEPT !.mode = "legacy"] IN
           IF pipeline = None THEN
               /\ pc' = [pc EXCEPT ![w] = "failed"]
               /\ loc' = [loc EXCEPT ![w] =
                     [l EXCEPT !.err = Some(PlainError("ValueError",
                                                       "Pipeline not found: " \o pid))]]
           ELSE
               LET cur == Get(pipeline).current_phase
                   nxt == PhaseSequenceGet(cur)
               IN
               IF cur \notin PipelineStates THEN
                   /\ pc' = [pc EXCEPT ![w] = "failed"]
                   /\ loc' = [loc EXCEPT ![w] =
                         [l EXCEPT !.err = Some(PlainError("ValueError",
                                  "'" \o cur \o "' is not a valid PipelineState"))]]
               ELSE IF nxt = NoneStr THEN
                   /\ pc' = [pc EXCEPT ![w] = "failed"]
                   /\ loc' = [loc EXCEPT ![w] =
                         [l EXCEPT !.err = Some(PlainError("ValueError",
                                                  "Cannot advance from " \o cur))]]
               ELSE IF ~validate_transition(cur, nxt) THEN
                   /\ pc' = [pc EXCEPT ![w] = "failed"]
                   /\ loc' = [loc EXCEPT ![w] =
                         [l EXCEPT !.err = Some(PlainError("InvalidStateTransitionError",
                                  "Cannot advance from " \o cur \o " to " \o nxt))]]
               ELSE
                   /\ pc' = [pc EXCEPT ![w] = "legacy_update"]
                   /\ loc' = [loc EXCEPT ![w] =
                         [l EXCEPT !.phase_name = cur, !.previous_phase = cur,
                                   !.next_state = nxt]]
    /\ UNCHANGED <<env, configs, store, transitions, usage, hist>>

\* worker w moves to label with the locals l
Goto(w, label, l) ==
    /\ pc' = [pc EXCEPT ![w] = label]
    /\ loc' = [loc EXCEPT ![w] = l]

Called(w, name) == calls' = [calls EXCEPT ![w] = Append(@, name)]

Logged(w, events) == log' = [log EXCEPT ![w] = @ \o events]

ErrorEvent(text) == <<[level |-> "error", event |-> text]>>

\* execute_phase, step 1: load configuration
LoadConfigStep(w) ==
    /\ pc[w] = "load_config"
    /\ \E fault \in BOOLEAN :
          LET r == load_config(configs, loc[w].phase_name, fault) IN
          /\ Called(w, "config_loader")
          /\ IF r.ok
             THEN /\ Goto(w, "build_prompt", [loc[w] EXCEPT !.config = r.config])
                  /\ Logged(w, r.logged)
             ELSE /\ Raise(w, Get(r.error))
                  /\ Logged(w, r.logged \o ErrorEvent("Configuration error"))
    /\ UNCHANGED <<env, configs, store, transitions, usage, snap, hist, nreq>>

\* mutant of BuildPromptStep: the prompt is added to the artifacts argument
BuildPromptStepMutating(w) ==
    /\ pc[w] = "build_prompt"
    /\ \E o \in PromptOutcomes :
          LET p == Get(loc[w].pipeline)
              l == [loc[w] EXCEPT !.pipeline =
                       Some([p EXCEPT !.state =
                                StateDict(TRUE, MapPut(p.state.artifacts, "prompt", o.id))])]
          IN
          /\ Called(w, "prompt_builder")
          /\ Logged(w, <<>>)
          /\ IF o.kind = "ok"
             THEN Goto(w, "call_llm", [l EXCEPT !.prompt = Some([text |-> o.text, id |-> o.id])])
             ELSE Goto(w, "failed",
                       [l EXCEPT !.caught = Some(o),
                                 !.err = Some(PromptBuildErrorOf(o, loc[w].phase_name,
                                                                 loc[w].pid))])
    /\ UNCHANGED <<env, configs, store, transitions, usage, snap, hist, nreq>>

\* execute_phase, step 2: build prompt
BuildPromptStep(w) ==
    /\ pc[w] = "build_prompt"
    /\ \E o \in PromptOutcomes :
          /\ Called(w, "prompt_builder")
          /\ IF o.kind = "ok"
             THEN /\ Goto(w, "call_llm",
                          [loc[w] EXCEPT !.prompt = Some([text |-> o.text, id |-> o.id])])
                  /\ Logged(w, <<>>)
             ELSE IF o.kind = "ValueError"
             THEN /\ Goto(w, "failed",
                          [loc[w] EXCEPT !.caught = Some(o),
                               !.err = Some(PromptBuildErrorOf(o, loc[w].phase_name,
                                                               loc[w].pid))])
                  /\ Logged(w, ErrorEvent("Prompt build error"))
             ELSE /\ Goto(w, "failed",
                          [loc[w] EXCEPT !.caught = Some(o),
                               !.err = Some(UnexpectedErrorOf(o, loc[w].phase_name,
                                                              loc[w].pid))])
                  /\ Logged(w, ErrorEvent("Unexpected internal error during phase execution"))
    /\ UNCHANGED <<env, configs, store, transitions, usage, snap, hist, nreq>>

\* execute_phase, step 3: call LLM
CallLLMStep(w) ==
    /\ pc[w] = "call_llm"
    /\ \E o \in ProviderOutcomes, ms \in ElapsedChoices :
          LET r == LLMCall(o, ms)
              l == [loc[w] EXCEPT !.llm = Some(r)]
          IN
          /\ Called(w, "llm_caller")
          /\ IF r.success
             THEN /\ Goto(w, "parse", l)
                  /\ Logged(w, <<>>)
             ELSE /\ Goto(w, "failed",
                          [l EXCEPT !.err = Some(LLMErrorOf(r, loc[w].phase_name,
                                                            loc[w].pid))])
                  /\ Logged(w, ErrorEvent("LLM error"))
    /\ UNCHANGED <<env, configs, store, transitions, usage, snap, hist, nreq>>

\* mutant of ParseStep: a failed parse is retried once
ParseStepRetrying(w) ==
    /\ pc[w] = "parse"
    /\ \E r1 \in ParseOutcomes, r \in ParseOutcomes :
          LET l == [loc[w] EXCEPT !.parsed = Some(r)] IN
          /\ calls' = [calls EXCEPT ![w] =
                          IF r1.success THEN Append(@, "parser")
                          ELSE Append(Append(@, "parser"), "parser")]
          /\ IF r1.success \/ r.success
             THEN /\ Goto(w, "record_usage",
                          [l EXCEPT !.parsed = Some(IF r1.success THEN r1 ELSE r)])
                  /\ Logged(w, <<>>)
             ELSE /\ Goto(w, "failed",
                          [l EXCEPT !.err = Some(ExecutionErrorOf("ParseError",
                                "Parse failed: " \o Join(r.error_messages, "; "),
                                loc[w].phase_name, loc[w].pid))])
                  /\ Logged(w, ErrorEvent("Parse error"))
    /\ UNCHANGED <<env, configs, store, transitions, usage, snap, hist, nreq>>

\* execute_phase, step 4: parse response
ParseStep(w) ==
    /\ pc[w] = "parse"
    /\ \E r \in ParseOutcomes :
          LET l == [loc[w] EXCEPT !.parsed = Some(r)] IN
          /\ Called(w, "parser")
          /\ IF r.success
             THEN /\ Goto(w, "record_usage", l)
                  /\ Logged(w, <<>>)
             ELSE /\ Goto(w, "failed",
                          [l EXCEPT !.err = Some(ParseErrorOf(r, loc[w].phase_name,
                                                              loc[w].pid))])
                  /\ Logged(w, ErrorEvent("Parse error"))
    /\ UNCHANGED <<env, configs, store, transitions, usage, snap, hist, nreq>>

\* mutant of PhaseExecutionResultOf: the time is measured by the orchestrator and
\* the response text is stored stripped
PhaseExecutionResultRestamped(config, parse_result, prompt_id, llm_result) ==
    [success |-> TRUE,
     artifact |-> Get(parse_result.data),
     artifact_type |-> config.artifact_type,
     next_phase |-> config.next_phase,
     prompt_id |-> prompt_id,
     llm_response_raw |-> "stripped",
     execution_time_ms |-> llm_result.execution_time_ms + 1,
     error |-> NoneStr]

\* execute_phase, step 6: PhaseExecutionResult(success=True, artifact=parse_result.data, ...)
PhaseExecutionResultOf(config, parse_result, prompt_id, llm_result) ==
    [success |-> TRUE,
     artifact |-> Get(parse_result.data),
     artifact_type |-> config.artifact_type,
     next_phase |-> config.next_phase,
     prompt_id |-> prompt_id,
     llm_response_raw |-> llm_result.response_text,
     execution_time_ms |-> llm_result.execution_time_ms,
     error |-> NoneStr]

\* mutant of RecordUsageStep: a failed usage write aborts the execution
RecordUsageStepFatal(w) ==
    /\ pc[w] = "record_usage"
    /\ \E fault \in WriteFaults :
          LET cfg == Get(loc[w].config)
              u == [pipeline_id |-> loc[w].pid, prompt_id |-> Get(loc[w].prompt).id,
                    role_name |-> cfg.role_name, phase_name |-> loc[w].phase_name]
              r == record_usage(usage, u, fault)
              result == PhaseExecutionResultOf(cfg, Get(loc[w].parsed),
                                               Get(loc[w].prompt).id, Get(loc[w].llm))
          IN
          /\ Called(w, "usage_recorder")
          /\ usage' = r.rows
          /\ Logged(w, r.logged)
          /\ IF r.returned
             THEN Goto(w, "validate_next",
                       [loc[w] EXCEPT !.recorded = Some(TRUE), !.result = Some(result)])
             ELSE Goto(w, "failed",
                       [loc[w] EXCEPT !.recorded = Some(FALSE),
                            !.err = Some(ExecutionErrorOf("ExecutionError",
                                             "Usage recording failed",
                                             loc[w].phase_name, loc[w].pid))])
    /\ UNCHANGED <<env, configs, store, transitions, snap, hist, nreq>>

\* mutant of RecordUsageStep: the orchestrator stores the artifact and the next
\* phase in the pipeline row itself
RecordUsageStepPersisting(w) ==
    /\ pc[w] = "record_usage"
    /\ \E fault \in WriteFaults :
          LET cfg == Get(loc[w].config)
              u == [pipeline_id |-> loc[w].pid, prompt_id |-> Get(loc[w].prompt).id,
                    role_name |-> cfg.role_name, phase_name |-> loc[w].phase_name]
              r == record_usage(usage, u, fault)
              result == [success |-> TRUE,
                         artifact |-> Get(Get(loc[w].parsed).data),
                         artifact_type |-> cfg.artifact_type,
                         next_phase |-> cfg.next_phase,
                         prompt_id |-> Get(loc[w].prompt).id,
                         llm_response_raw |-> Get(loc[w].llm).response_text,
                         execution_time_ms |-> Get(loc[w].llm).execution_time_ms,
                         error |-> NoneStr]
          IN
          /\ Called(w, "usage_recorder")
          /\ usage' = r.rows
          /\ Logged(w, r.logged)
          /\ store' = [store EXCEPT ![loc[w].pid].state =
                          StateDict(TRUE, MapPut(EmptyMap, result.artifact_type,
                                                 result.artifact))]
          /\ Goto(w, "validate_next",
                  [loc[w] EXCEPT !.recorded = Some(r.returned), !.result = Some(result)])
    /\ UNCHANGED <<env, configs, transitions, snap, hist, nreq>>

\* execute_phase, steps 5 and 6: record usage (best-effort) and assemble the result
RecordUsageStep(w) ==
    /\ pc[w] = "record_usage"
    /\ \E fault \in WriteFaults :
          LET cfg == Get(loc[w].config)
              u == [pipeline_id |-> loc[w].pid, prompt_id |-> Get(loc[w].prompt).id,
                    role_name |-> cfg.role_name, phase_name |-> loc[w].phase_name]
              r == record_usage(usage, u, fault)
              result == PhaseExecutionResultOf(cfg, Get(loc[w].parsed),
                                               Get(loc[w].prompt).id, Get(loc[w].llm))
          IN
          /\ Called(w, "usage_recorder")
          /\ usage' = r.rows
          /\ Logged(w, r.logged \o
                       (IF r.returned THEN <<>>
                        ELSE <<[level |-> "warning",
                                event |-> "Failed to record usage (non-fatal)"]>>))
          /\ Goto(w, "validate_next",
                  [loc[w] EXCEPT !.recorded = Some(r.returned), !.result = Some(result)])
    /\ UNCHANGED <<env, configs, store, transitions, snap, hist, nreq>>

(***************************************************************************)
(* The transition committer: _advance_phase_data_driven after execute_phase*)
(***************************************************************************)
\* the state of the local pipeline object after the artifact is merged into it
MergedState(state, artifact_type, artifact) ==
    LET st0 == IF state.kind = "none" THEN StateDict(FALSE, EmptyMap) ELSE state
        st1 == IF ~st0.has_artifacts THEN StateDict(TRUE, EmptyMap) ELSE st0
    IN StateDict(TRUE, MapPut(st1.artifacts, artifact_type, artifact))

\* mutant of NewPhase: a missing next_phase is stored as it is
NewPhaseUnmapped(next_phase) == next_phase

\* new_state / new_phase / to_state: result.next_phase if result.next_phase else "complete"
NewPhase(next_phase) ==
    IF next_phase # NoneStr /\ next_phase # "" THEN next_phase ELSE "complete"

StoreFault == PlainError("OperationalError", "database is locked")

\* mutant of ValidateNextPhase: an invalid next_phase takes the usage record of the
\* call back
ValidateNextPhaseUndoing(w) ==
    /\ pc[w] = "validate_next"
    /\ LET r == Get(loc[w].result)
           p == Get(loc[w].pipeline)
           previous_phase == p.current_phase
           merged == PipelineRow(r.next_phase,
                                 MergedState(p.state, r.artifact_type, r.artifact))
           l == [loc[w] EXCEPT !.pipeline = Some(merged),
                               !.previous_phase = previous_phase]
       IN
       IF r.next_phase # NoneStr THEN
           \E fault \in BOOLEAN :
              LET c == load_config(configs, r.next_phase, fault) IN
              IF c.ok
              THEN /\ Goto(w, "update_state", l)
                   /\ Logged(w, c.logged)
                   /\ UNCHANGED usage
              ELSE /\ Goto(w, "failed",
                           [l EXCEPT !.err = Some(InvalidNextPhaseErrorOf(r.next_phase,
                                                      previous_phase, loc[w].pid))])
                   /\ Logged(w, c.logged
                                \o ErrorEvent("Invalid next_phase: " \o r.next_phase
                                              \o " does not exist")
                                \o ErrorEvent("Execution failed for pipeline "
                                              \o loc[w].pid))
                   /\ usage' = IF loc[w].recorded = Some(TRUE)
                               THEN SubSeq(usage, 1, Len(usage) - 1) ELSE usage
       ELSE
           /\ Goto(w, "update_state", l)
           /\ Logged(w, <<>>)
           /\ UNCHANGED usage
    /\ UNCHANGED <<env, configs, store, transitions, calls, snap, hist, nreq>>

\* mutant of ValidateNextPhase: the merged pipeline object is written to the
\* store before next_phase is validated
ValidateNextPhaseFlushing(w) ==
    /\ pc[w] = "validate_next"
    /\ LET r == Get(loc[w].result)
           p == Get(loc[w].pipeline)
           previous_phase == p.current_phase
           merged == PipelineRow(r.next_phase,
                                 MergedState(p.state, r.artifact_type, r.artifact))
           l == [loc[w] EXCEPT !.pipeline = Some(merged),
                               !.previous_phase = previous_phase]
       IN
       /\ store' = [store EXCEPT ![loc[w].pid] = merged]
       /\ Logged(w, <<>>)
       /\ IF r.next_phase # NoneStr THEN
              \E fault \in BOOLEAN :
                 IF load_config(configs, r.next_phase, fault).ok
                 THEN Goto(w, "update_state", l)
                 ELSE Goto(w, "failed",
                           [l EXCEPT !.err = Some(InvalidNextPhaseErrorOf(r.next_phase,
                                                      previous_phase, loc[w].pid))])
          ELSE Goto(w, "update_state", l)
    /\ UNCHANGED <<env, configs, transitions, usage, calls, snap, hist, nreq>>

\* merge the artifact into the local pipeline object and validate next_phase
ValidateNextPhase(w) ==
    /\ pc[w] = "validate_next"
    /\ LET r == Get(loc[w].result)
           p == Get(loc[w].pipeline)
           previous_phase == p.current_phase
           merged == PipelineRow(r.next_phase,
                                 MergedState(p.state, r.artifact_type, r.artifact))
           l == [loc[w] EXCEPT !.pipeline = Some(merged),
                               !.previous_phase = previous_phase]
       IN
       IF r.next_phase # NoneStr THEN
           \E fault \in BOOLEAN :
              LET c == load_config(configs, r.next_phase, fault) IN
              IF c.ok
              THEN /\ Goto(w, "update_state", l)
                   /\ Logged(w, c.logged)
              ELSE /\ Goto(w, "failed",
                           [l EXCEPT !.err = Some(InvalidNextPhaseErrorOf(r.next_phase,
                                                      previous_phase, loc[w].pid))])
                   /\ Logged(w, c.logged
                                \o ErrorEvent("Invalid next_phase: " \o r.next_phase
                                              \o " does not exist")
                                \o ErrorEvent("Execution failed for pipeline "
                                              \o loc[w].pid))
       ELSE
           /\ Goto(w, "update_state", l)
           /\ Logged(w, <<>>)
    /\ UNCHANGED <<env, configs, store, transitions, usage, calls, snap, hist, nreq>>



\* pipeline_repo.update_state(pipeline_id, new_state, new_phase)
UpdateStateStep(w) ==
    /\ pc[w] = "update_state"
    /\ LET new == NewPhase(Get(loc[w].result).next_phase)
           pid == loc[w].pid
       IN
       \E ok \in BOOLEAN :
          IF ok
          THEN /\ store' = update_state(store, pid, new, new)
               /\ hist' = [hist EXCEPT !.updates =
                              Append(@, [from |-> store[pid].current_phase, to |-> new])]
               /\ Goto(w, "create_transition",
                       [loc[w] EXCEPT !.updated = Some(store'[pid])])
          ELSE /\ Raise(w, StoreFault)
               /\ UNCHANGED <<store, hist>>
    /\ UNCHANGED <<env, configs, transitions, usage, calls, log, snap, nreq>>

\* transition_repo.create(...) and the PhaseAdvancedResponse
CreateTransitionStep(w) ==
    /\ pc[w] = "create_transition"
    /\ LET new == NewPhase(Get(loc[w].result).next_phase)
           updated == Get(loc[w].updated)
       IN
       \E ok \in BOOLEAN :
          IF ok
          THEN /\ transitions' = transition_create(transitions, loc[w].pid,
                                     loc[w].previous_phase, new,
                                     "Data-driven phase execution")
               /\ hist' = [hist EXCEPT !.reads = Append(@, loc[w].version)]
               /\ Goto(w, "done",
                       [loc[w] EXCEPT !.response =
                           Some([pipeline_id |-> loc[w].pid,
                                 previous_phase |-> loc[w].previous_phase,
                                 current_phase |-> updated.current_phase,
                                 state |-> updated.state])])
          ELSE /\ Raise(w, StoreFault)
               /\ UNCHANGED <<transitions, hist>>
    /\ UNCHANGED <<env, configs, store, usage, calls, log, snap, nreq>>

(***************************************************************************)
(* _advance_phase_legacy after the transition is validated.                *)
(***************************************************************************)
LegacyUpdateStep(w) ==
    /\ pc[w] = "legacy_update"
    /\ LET new == loc[w].next_state
           pid == loc[w].pid
       IN
       \E ok \in BOOLEAN :
          IF ok
          THEN /\ store' = update_state(store, pid, new, new)
               /\ hist' = [hist EXCEPT !.updates =
                              Append(@, [from |-> store[pid].current_phase, to |-> new])]
               /\ Goto(w, "legacy_create",
                       [loc[w] EXCEPT !.updated = Some(store'[pid])])
          ELSE /\ Raise(w, StoreFault)
               /\ UNCHANGED <<store, hist>>
    /\ UNCHANGED <<env, configs, transitions, usage, calls, log, snap, nreq>>

LegacyCreateStep(w) ==
    /\ pc[w] = "legacy_create"
    /\ LET updated == Get(loc[w].updated) IN
       \E ok \in BOOLEAN :
          IF ok
          THEN /\ transitions' = transition_create(transitions, loc[w].pid,
                                     loc[w].previous_phase, loc[w].next_state,
                                     "Phase advancement (legacy)")
               /\ hist' = [hist EXCEPT !.reads = Append(@, loc[w].version)]
               /\ Goto(w, "done",
                       [loc[w] EXCEPT !.response =
                           Some([pipeline_id |-> loc[w].pid,
                                 previous_phase |-> loc[w].previous_phase,
                                 current_phase |-> updated.current_phase,
                                 state |-> updated.state])])
          ELSE /\ Raise(w, StoreFault)
               /\ UNCHANGED <<transitions, hist>>
    /\ UNCHANGED <<env, configs, store, usage, calls, log, snap, nreq>>

\* the call has returned or raised: the worker is free for the next request
Return(w) ==
    /\ pc[w] \in {"done", "failed"}
    /\ pc' = [pc EXCEPT ![w] = "idle"]
    /\ loc' = [loc EXCEPT ![w] = InitLoc]
    /\ calls' = [calls EXCEPT ![w] = <<>>]
    /\ log' = [log EXCEPT ![w] = <<>>]
    /\ snap' = [snap EXCEPT ![w] = [store |-> store, transitions |-> transitions]]
    /\ UNCHANGED <<env, configs, store, transitions, usage, hist, nreq>>

(***************************************************************************)
(* Specifications.  Spec runs the requests one after the other; ConcSpec   *)
(* lets the requests of the workers interleave.                            *)
(***************************************************************************)
Quiet == \A v \in Workers : pc[v] = "idle"

SequentialAdvancePhase(w, pid) == Quiet /\ AdvancePhase(w, pid)

Step(w) ==
    \/ LoadConfigStep(w)
    \/ BuildPromptStep(w)
    \/ CallLLMStep(w)
    \/ ParseStep(w)
    \/ RecordUsageStep(w)
    \/ ValidateNextPhase(w)
    \/ UpdateStateStep(w)
    \/ CreateTransitionStep(w)
    \/ LegacyUpdateStep(w)
    \/ LegacyCreateStep(w)
    \/ Return(w)

Next ==
    /\ \E w \in Workers :
          \/ \E pid \in RequestIds : SequentialAdvancePhase(w, pid)
          \/ Step(w)
    /\ UNCHANGED unit_vars

Spec == Init /\ [][Next]_vars

ConcNext ==
    /\ \E w \in Workers :
          \/ \E pid \in RequestIds : AdvancePhase(w, pid)
          \/ Step(w)
    /\ UNCHANGED unit_vars

ConcSpec == Init /\ [][ConcNext]_vars

(***************************************************************************)
(* The parser on its own: a parser is constructed with a strategy list and *)
(* parses response texts.                                                  *)
(***************************************************************************)
ParserInit ==
    /\ env = [flag |-> TRUE, sdk |-> TRUE, api_key |-> TRUE]
    /\ configs = FullChain
    /\ store = [p \in PipelineIds |-> PipelineRow("pm_phase", StateNone)]
    /\ transitions = <<>>
    /\ usage = <<>>
    /\ pc = [w \in Workers |-> "idle"]
    /\ loc = [w \in Workers |-> InitLoc]
    /\ calls = [w \in Workers |-> <<>>]
    /\ log = [w \in Workers |-> <<>>]
    /\ snap = [w \in Workers |-> [store |-> store, transitions |-> transitions]]
    /\ hist = [updates |-> <<>>, reads |-> <<>>]
    /\ nreq = 0
    /\ parser = NoParser
    /\ loader = NoLoader
    /\ caller = NoCaller
    /\ recorder = NoRecorder
    /\ auth = NoAuth

\* parser = LLMResponseParser(strategies)
ConstructParser ==
    /\ ~parser.constructed
    /\ parser.init_error = NoneStr
    /\ \E arg \in StrategyArgs : parser' = [NewParser(arg) EXCEPT !.arg = Some(arg)]
    /\ UNCHANGED <<service_vars, loader, caller, recorder, auth>>

\* parser.parse(response_text); parse keeps nothing between calls, so one call of
\* each parser object is followed
ParseCall ==
    /\ parser.constructed
    /\ parser.input = None
    /\ \E response_text \in ResponseTexts :
          LET r == Parse(parser.strategies, response_text) IN
          parser' = [parser EXCEPT !.input = Some(response_text),
                                   !.result = Some(r.result),
                                   !.invoked = r.invoked]
    /\ UNCHANGED <<service_vars, loader, caller, recorder, auth>>

ParserNext == ConstructParser \/ ParseCall

ParserSpec == ParserInit /\ [][ParserNext]_vars

(***************************************************************************)
(* The configuration loader on its own: one call of load_config, a step at *)
(* the repository lookup, at the error log and at the raise or the return. *)
(***************************************************************************)
ServiceAtRest ==
    /\ env = [flag |-> TRUE, sdk |-> TRUE, api_key |-> TRUE]
    /\ configs = FullChain
    /\ store = [p \in PipelineIds |-> PipelineRow("pm_phase", StateNone)]
    /\ transitions = <<>>
    /\ usage = <<>>
    /\ pc = [w \in Workers |-> "idle"]
    /\ loc = [w \in Workers |-> InitLoc]
    /\ calls = [w \in Workers |-> <<>>]
    /\ log = [w \in Workers |-> <<>>]
    /\ snap = [w \in Workers |-> [store |-> store, transitions |-> transitions]]
    /\ hist = [updates |-> <<>>, reads |-> <<>>]
    /\ nreq = 0

LoaderInit ==
    /\ ServiceAtRest
    /\ parser = NoParser
    /\ caller = NoCaller
    /\ recorder = NoRecorder
    /\ auth = NoAuth
    /\ \E cs \in ConfigStores : loader = [NoLoader EXCEPT !.repo = cs]

\* the outcome of the call in progress
LoadConfigOutcome == load_config(loader.repo, loader.phase_name, loader.fault)

\* loader.load_config(phase_name); fault: the repository lookup will raise
LoadConfigCall ==
    /\ loader.pc = "idle"
    /\ \E phase_name \in PipelineStates, fault \in BOOLEAN :
          loader' = [loader EXCEPT !.pc = "lookup", !.phase_name = phase_name,
                                   !.fault = fault]
    /\ UNCHANGED <<service_vars, parser, caller, recorder, auth>>

\* config_model = self._repo.get_by_phase_name(phase_name), and the checks of the row
LoadConfigLookup ==
    /\ loader.pc = "lookup"
    /\ loader' = [loader EXCEPT !.lookups = @ + LoadConfigOutcome.lookups,
                                !.pc = IF LoadConfigOutcome.ok THEN "build" ELSE "log"]
    /\ UNCHANGED <<service_vars, parser, caller, recorder, auth>>

\* mutant of LoadConfigLogError: the failure is not logged
LoadConfigLogErrorSilent ==
    /\ loader.pc = "log"
    /\ loader' = [loader EXCEPT !.pc = "raise"]
    /\ UNCHANGED <<service_vars, parser, caller, recorder, auth>>

\* logger.error(...) of the failing branch
LoadConfigLogError ==
    /\ loader.pc = "log"
    /\ loader' = [loader EXCEPT !.log = @ \o LoadConfigOutcome.logged, !.pc = "raise"]
    /\ UNCHANGED <<service_vars, parser, caller, recorder, auth>>

\* raise ConfigurationError(...)
LoadConfigRaise ==
    /\ loader.pc = "raise"
    /\ loader' = [loader EXCEPT !.raised = LoadConfigOutcome.error, !.pc = "raised"]
    /\ UNCHANGED <<service_vars, parser, caller, recorder, auth>>

\* config = PhaseConfig(...); return config
LoadConfigReturn ==
    /\ loader.pc = "build"
    /\ loader' = [loader EXCEPT !.returned = LoadConfigOutcome.config, !.pc = "returned"]
    /\ UNCHANGED <<service_vars, parser, caller, recorder, auth>>

LoaderNext ==
    \/ LoadConfigCall
    \/ LoadConfigLookup
    \/ LoadConfigLogError
    \/ LoadConfigRaise
    \/ LoadConfigReturn

LoaderSpec == LoaderInit /\ [][LoaderNext]_vars

(***************************************************************************)
(* The LLM caller on its own: one call, whatever the client does.          *)
(***************************************************************************)
\* the content of a response: no block, one block, two blocks
ContentBlocks ==
    {TextBlock("raw response"), TextBlock(""), TextBlock("second block"), ToolUseBlock}

Contents ==
    {<<>>} \cup {<<b>> : b \in ContentBlocks}
    \cup {<<b1, b2>> : b1 \in ContentBlocks, b2 \in ContentBlocks}

TokenCounts == {0, 50, 100}

\* everything client.messages.create may do
ClientOutcomes ==
    {Response(c, i, o) : c \in Contents, i \in TokenCounts, o \in TokenCounts}
    \cup {Fault(t, m) : t \in {"AuthenticationError", "RuntimeError"},
                        m \in {"Invalid API key", "Unexpected error", ""}}

\* int((time.time() - start_time) * 1000)
ElapsedMs == {0, 1000}

CallerInit ==
    /\ ServiceAtRest
    /\ parser = NoParser
    /\ loader = NoLoader
    /\ caller = NoCaller
    /\ recorder = NoRecorder
    /\ auth = NoAuth

\* caller.call(system_prompt, user_message): the request is sent
LLMCallerCall ==
    /\ caller.pc = "idle"
    /\ \E o \in ClientOutcomes, ms \in ElapsedMs :
          caller' = [caller EXCEPT !.pc = "calling", !.outcome = Some(o),
                                   !.elapsed_ms = ms]
    /\ UNCHANGED <<service_vars, parser, loader, recorder, auth>>

\* the client returns or raises, and call returns its LLMCallResult
LLMCallerReturn ==
    /\ caller.pc = "calling"
    /\ caller' = [caller EXCEPT !.pc = "returned",
                                !.result = Some(LLMCall(Get(caller.outcome),
                                                        caller.elapsed_ms))]
    /\ UNCHANGED <<service_vars, parser, loader, recorder, auth>>

CallerNext == LLMCallerCall \/ LLMCallerReturn

CallerSpec == CallerInit /\ [][CallerNext]_vars

(***************************************************************************)
(* The usage recorder on its own: one call of record_usage, a step at the  *)
(* repository write, at the warning and at the return.                     *)
(***************************************************************************)
UsageRecords ==
    [pipeline_id : {"pip_1", "pip_2"}, prompt_id : {"rp_123", "rp_456"},
     role_name : {"pm", "architect"}, phase_name : {"pm_phase", "arch_phase"}]

\* the exception of the repository write, if any
RepositoryFaults == {None, Some("database locked"), Some("")}

RecorderInit ==
    /\ ServiceAtRest
    /\ parser = NoParser
    /\ loader = NoLoader
    /\ caller = NoCaller
    /\ recorder = NoRecorder
    /\ auth = NoAuth

\* the outcome of the call in progress
RecordUsageOutcome == record_usage(recorder.rows, Get(recorder.usage), recorder.fault)

\* recorder.record_usage(usage)
RecordUsageCall ==
    /\ recorder.pc = "idle"
    /\ \E u \in UsageRecords, fault \in RepositoryFaults :
          recorder' = [recorder EXCEPT !.pc = "write", !.usage = Some(u), !.fault = fault]
    /\ UNCHANGED <<service_vars, parser, loader, caller, auth>>

\* self._repo.record_usage(pipeline_id=..., prompt_id=...)
RecordUsageWrite ==
    /\ recorder.pc = "write"
    /\ recorder' = [recorder EXCEPT !.rows = RecordUsageOutcome.rows,
                                    !.pc = IF recorder.fault = None THEN "return"
                                           ELSE "warn"]
    /\ UNCHANGED <<service_vars, parser, loader, caller, auth>>

\* logger.warning("Usage record failure", extra={...})
RecordUsageWarn ==
    /\ recorder.pc = "warn"
    /\ recorder' = [recorder EXCEPT !.log = @ \o RecordUsageOutcome.logged,
                                    !.pc = "return"]
    /\ UNCHANGED <<service_vars, parser, loader, caller, auth>>

\* return True / return False
RecordUsageReturn ==
    /\ recorder.pc = "return"
    /\ recorder' =
          IF RecordUsageOutcome.raised # None
          THEN [recorder EXCEPT !.raised = RecordUsageOutcome.raised, !.pc = "raised"]
          ELSE [recorder EXCEPT !.returned = Some(RecordUsageOutcome.returned),
                                !.pc = "returned"]
    /\ UNCHANGED <<service_vars, parser, loader, caller, auth>>

RecorderNext ==
    \/ RecordUsageCall
    \/ RecordUsageWrite
    \/ RecordUsageWarn
    \/ RecordUsageReturn

RecorderSpec == RecorderInit /\ [][RecorderNext]_vars

(***************************************************************************)
(* The authentication router on its own.  The handlers are coroutines that *)
(* never await: each runs to its end before the next request is served.    *)
(* auth.last is the request just served and its response; auth.redeemed    *)
(* (tokens that logged in) and auth.closed (session ids that logged out)   *)
(* are history.                                                            *)
(***************************************************************************)
AuthInit ==
    /\ ServiceAtRest
    /\ parser = NoParser
    /\ loader = NoLoader
    /\ caller = NoCaller
    /\ recorder = NoRecorder
    /\ auth = NoAuth

\* the request just served, with its response
Served(endpoint, token, cookie, response) ==
    Some([endpoint |-> endpoint, token |-> token, cookie |-> cookie, form |-> None,
          response |-> response])

\* a POST /login with the email field of its form, and its response
ServedLogin(email, response) ==
    Some([endpoint |-> "POST /login", token |-> None, cookie |-> None,
          form |-> Some(email), response |-> response])

\* the session_id cookie of a request: none, an id that was never created, an id
\* that was created
Cookies == {None} \cup {Some(id) : id \in 0..auth.created}

\* mutant of SendMagicLink: the earlier pending tokens of the email are kept
SendMagicLinkKeepingOld ==
    /\ auth.issued < MaxTokens
    /\ \E input \in EmailInputs, delivery \in {"rate_limited", "sent", "send_failed"} :
          LET email == Normalize(input) IN
          IF ~ValidEmail(email) THEN
              auth' = [auth EXCEPT !.last =
                          ServedLogin(input, HTTPException(400, "Invalid email address"))]
          ELSE IF delivery = "rate_limited" THEN
              auth' = [auth EXCEPT !.last =
                          ServedLogin(input, HTTPException(429, "Too many requests."))]
          ELSE
              LET token == auth.issued + 1
                  pending_token == [token_hash |-> bcrypt_hashpw(token), email |-> email,
                                    expires_at |-> auth.now + SevenDays]
              IN
              auth' = [auth EXCEPT
                          !.pending_tokens = @ \cup {pending_token},
                          !.issued = token,
                          !.mailed = @ \cup {[email |-> email, token |-> token]},
                          !.last =
                              ServedLogin(input,
                                  IF delivery = "sent"
                                  THEN [EmptyResponse EXCEPT !.email = email]
                                  ELSE HTTPException(500,
                                           "Failed to send email. Please try again later."))]
    /\ UNCHANGED <<service_vars, parser, loader, caller, recorder>>

\* mutant of SendMagicLink: the pending tokens of the email are deleted before the
\* rate limit is asked
SendMagicLinkDeletingFirst ==
    /\ auth.issued < MaxTokens
    /\ \E input \in EmailInputs, delivery \in {"rate_limited", "sent", "send_failed"} :
          LET email == Normalize(input)
              kept == {r \in auth.pending_tokens : r.email # email}
          IN
          IF ~ValidEmail(email) THEN
              auth' = [auth EXCEPT !.last =
                          ServedLogin(input, HTTPException(400, "Invalid email address"))]
          ELSE IF delivery = "rate_limited" THEN
              auth' = [auth EXCEPT !.pending_tokens = kept, !.last =
                          ServedLogin(input, HTTPException(429, "Too many requests."))]
          ELSE
              LET token == auth.issued + 1
                  pending_token == [token_hash |-> bcrypt_hashpw(token), email |-> email,
                                    expires_at |-> auth.now + SevenDays]
              IN
              auth' = [auth EXCEPT
                          !.pending_tokens = kept \cup {pending_token},
                          !.issued = token,
                          !.mailed = @ \cup {[email |-> email, token |-> token]},
                          !.last =
                              ServedLogin(input,
                                  IF delivery = "sent"
                                  THEN [EmptyResponse EXCEPT !.email = email]
                                  ELSE HTTPException(500,
                                           "Failed to send email. Please try again later."))]
    /\ UNCHANGED <<service_vars, parser, loader, caller, recorder>>

\* POST /login; delivery is what email_service does: it refuses for the rate limit,
\* sends the link, or fails to send it
SendMagicLink ==
    /\ auth.issued < MaxTokens
    /\ \E input \in EmailInputs, delivery \in {"rate_limited", "sent", "send_failed"} :
          LET email == Normalize(input) IN
          IF ~ValidEmail(email) THEN
              auth' = [auth EXCEPT !.last =
                          ServedLogin(input, HTTPException(400, "Invalid email address"))]
          ELSE IF delivery = "rate_limited" THEN
              auth' = [auth EXCEPT !.last =
                          ServedLogin(input, HTTPException(429, "Too many requests."))]
          ELSE
              LET token == auth.issued + 1
                  pending_token == [token_hash |-> bcrypt_hashpw(token), email |-> email,
                                    expires_at |-> auth.now + SevenDays]
              IN
              auth' = [auth EXCEPT
                          !.pending_tokens =
                              {r \in @ : r.email # email} \cup {pending_token},
                          !.issued = token,
                          !.mailed = @ \cup {[email |-> email, token |-> token]},
                          !.last =
                              ServedLogin(input,
                                  IF delivery = "sent"
                                  THEN [EmptyResponse EXCEPT !.email = email]
                                  ELSE HTTPException(500,
                                           "Failed to send email. Please try again later."))]
    /\ UNCHANGED <<service_vars, parser, loader, caller, recorder>>

\* mutant of ValidateMagicLink: expired pending tokens are accepted too
ValidateMagicLinkIgnoringExpiry ==
    /\ auth.created <= MaxTokens
    /\ \E token \in 0..auth.issued :
          LET pending_tokens == auth.pending_tokens
              matching == {r \in pending_tokens : bcrypt_checkpw(token, r.token_hash)}
          IN
          IF matching = {} THEN
              auth' = [auth EXCEPT !.last =
                          Served("GET /magic-login", Some(token), None,
                                 HTTPException(401,
                                     "Invalid or expired token. Please request a new magic link."))]
          ELSE
              LET valid_token == CHOOSE r \in matching : TRUE
                  session_id == auth.created + 1
                  session == [id |-> session_id, email |-> valid_token.email,
                              expires_at |-> auth.now + SevenDays]
              IN
              auth' = [auth EXCEPT
                          !.sessions = @ \cup {session},
                          !.pending_tokens = @ \ {valid_token},
                          !.created = session_id,
                          !.redeemed = @ \cup {token},
                          !.last = Served("GET /magic-login", Some(token), None,
                                          set_cookie(RedirectResponse("/workspaces"),
                                                     session_id))]
    /\ UNCHANGED <<service_vars, parser, loader, caller, recorder>>

\* mutant of ValidateMagicLink: the used token is not deleted
ValidateMagicLinkKeepingToken ==
    /\ auth.created <= MaxTokens
    /\ \E token \in 0..auth.issued :
          LET pending_tokens == {r \in auth.pending_tokens : r.expires_at > auth.now}
              matching == {r \in pending_tokens : bcrypt_checkpw(token, r.token_hash)}
          IN
          IF matching = {} THEN
              auth' = [auth EXCEPT !.last =
                          Served("GET /magic-login", Some(token), None,
                                 HTTPException(401,
                                     "Invalid or expired token. Please request a new magic link."))]
          ELSE
              LET valid_token == CHOOSE r \in matching : TRUE
                  session_id == auth.created + 1
                  session == [id |-> session_id, email |-> valid_token.email,
                              expires_at |-> auth.now + SevenDays]
              IN
              auth' = [auth EXCEPT
                          !.sessions = @ \cup {session},
                          !.created = session_id,
                          !.redeemed = @ \cup {token},
                          !.last = Served("GET /magic-login", Some(token), None,
                                          set_cookie(RedirectResponse("/workspaces"),
                                                     session_id))]
    /\ UNCHANGED <<service_vars, parser, loader, caller, recorder>>

\* GET /magic-login?token=...
ValidateMagicLink ==
    /\ auth.created <= MaxTokens
    /\ \E token \in 0..auth.issued :
          LET pending_tokens == {r \in auth.pending_tokens : r.expires_at > auth.now}
              matching == {r \in pending_tokens : bcrypt_checkpw(token, r.token_hash)}
          IN
          IF matching = {} THEN
              auth' = [auth EXCEPT !.last =
                          Served("GET /magic-login", Some(token), None,
                                 HTTPException(401,
                                     "Invalid or expired token. Please request a new magic link."))]
          ELSE
              LET valid_token == CHOOSE r \in matching : TRUE
                  session_id == auth.created + 1
                  session == [id |-> session_id, email |-> valid_token.email,
                              expires_at |-> auth.now + SevenDays]
              IN
              auth' = [auth EXCEPT
                          !.sessions = @ \cup {session},
                          !.pending_tokens = @ \ {valid_token},
                          !.created = session_id,
                          !.redeemed = @ \cup {token},
                          !.last = Served("GET /magic-login", Some(token), None,
                                          set_cookie(RedirectResponse("/workspaces"),
                                                     session_id))]
    /\ UNCHANGED <<service_vars, parser, loader, caller, recorder>>

\* mutant of LookupSession: an expired session is refused but stays in the store
LookupSessionKeepingExpired(sessions, cookie, now) ==
    IF cookie = None THEN
        [sessions |-> sessions, session |-> None,
         error |-> Some(HTTPException(401, "Not authenticated"))]
    ELSE
        LET found == {s \in sessions : s.id = Get(cookie)} IN
        IF found = {} THEN
            [sessions |-> sessions, session |-> None,
             error |-> Some(HTTPException(401, "Invalid session"))]
        ELSE
            LET session == CHOOSE s \in found : TRUE IN
            IF is_expired(session, now) THEN
                [sessions |-> sessions, session |-> None,
                 error |-> Some(HTTPException(401, "Session expired. Please log in again."))]
            ELSE
                [sessions |-> sessions, session |-> Some(session), error |-> None]

\* the body shared by get_me and get_current_user: the session of the cookie, or the
\* HTTPException raised; sessions is the store afterwards
LookupSession(sessions, cookie, now) ==
    IF cookie = None THEN
        [sessions |-> sessions, session |-> None,
         error |-> Some(HTTPException(401, "Not authenticated"))]
    ELSE
        LET found == {s \in sessions : s.id = Get(cookie)} IN
        IF found = {} THEN
            [sessions |-> sessions, session |-> None,
             error |-> Some(HTTPException(401, "Invalid session"))]
        ELSE
            LET session == CHOOSE s \in found : TRUE IN
            IF is_expired(session, now) THEN
                [sessions |-> sessions \ {session}, session |-> None,
                 error |-> Some(HTTPException(401, "Session expired. Please log in again."))]
            ELSE
                [sessions |-> sessions, session |-> Some(session), error |-> None]

\* GET /me
GetMe ==
    /\ \E cookie \in Cookies :
          LET r == LookupSession(auth.sessions, cookie, auth.now) IN
          auth' = [auth EXCEPT
                      !.sessions = r.sessions,
                      !.last = Served("GET /me", None, cookie,
                                      IF r.error # None THEN Get(r.error)
                                      ELSE JSONResponse(Get(r.session)))]
    /\ UNCHANGED <<service_vars, parser, loader, caller, recorder>>

\* a route that depends on get_current_user; the dependency returns session.email
GetCurrentUser ==
    /\ \E cookie \in Cookies :
          LET r == LookupSession(auth.sessions, cookie, auth.now) IN
          auth' = [auth EXCEPT
                      !.sessions = r.sessions,
                      !.last = Served("get_current_user", None, cookie,
                                      IF r.error # None THEN Get(r.error)
                                      ELSE [EmptyResponse EXCEPT
                                               !.email = Get(r.session).email])]
    /\ UNCHANGED <<service_vars, parser, loader, caller, recorder>>

\* POST /logout
Logout ==
    /\ \E cookie \in Cookies :
          LET injected == delete_cookie(EmptyResponse)
              returned == RedirectResponse("/login")
          IN
          auth' = [auth EXCEPT
                      !.sessions = IF cookie = None THEN @
                                   ELSE {s \in @ : s.id # Get(cookie)},
                      !.closed = IF cookie = None THEN @ ELSE @ \cup {Get(cookie)},
                      !.last = Served("POST /logout", None, cookie,
                                      SentResponse(returned, injected))]
    /\ UNCHANGED <<service_vars, parser, loader, caller, recorder>>

\* time passes between two requests
Tick ==
    /\ auth.now < MaxTime
    /\ auth' = [auth EXCEPT !.now = @ + 1, !.last = None]
    /\ UNCHANGED <<service_vars, parser, loader, caller, recorder>>

AuthNext ==
    \/ SendMagicLink
    \/ ValidateMagicLink
    \/ GetMe
    \/ GetCurrentUser
    \/ Logout
    \/ Tick

AuthSpec == AuthInit /\ [][AuthNext]_vars

(***************************************************************************)
(* What a finished call has persisted, against the stores at its start.    *)
(***************************************************************************)
Finished(w) == pc[w] \in {"done", "failed"}

OnStoredPipeline(w) == loc[w].pid \in DOMAIN store

\* the stored current_phase is no longer the one the call started from
PhasePersisted(w) ==
    store[loc[w].pid].current_phase # snap[w].store[loc[w].pid].current_phase

\* a PhaseTransition record was appended since the call started
TransitionPersisted(w) == Len(transitions) > Len(snap[w].transitions)

\* the stored state holds the artifact the call produced under its artifact_type
ArtifactPersisted(w) ==
    /\ IsSome(loc[w].result)
    /\ Get(loc[w].result).artifact_type \in StoredArtifactKeys(store[loc[w].pid])
    /\ store[loc[w].pid].state.artifacts[Get(loc[w].result).artifact_type]
          = Get(loc[w].result).artifact

StoresUntouched(w) ==
    /\ store = snap[w].store
    /\ transitions = snap[w].transitions

\* the positions of a call inside execute_phase
ExecutePcs == {"load_config", "build_prompt", "call_llm", "parse", "record_usage"}

\* execute_phase raised: collaborators were called and no result was assembled
ExecuteFailed(w) ==
    /\ pc[w] = "failed"
    /\ calls[w] # <<>>
    /\ loc[w].result = None

CollaboratorOrder ==
    <<"config_loader", "prompt_builder", "llm_caller", "parser", "usage_recorder">>

\* execute_phase returned a result whose next_phase has no active configuration
NextPhaseUnresolvable(w) ==
    /\ IsSome(loc[w].result)
    /\ pc[w] # "validate_next"
    /\ Get(loc[w].result).next_phase # NoneStr
    /\ ~IsActivePhase(configs, Get(loc[w].result).next_phase)

\* the executed phase is terminal in the configuration store
TerminalPhaseExecuted(w) ==
    /\ IsSome(loc[w].result)
    /\ IsSome(configs[loc[w].phase_name])
    /\ Get(configs[loc[w].phase_name]).next_phase = NoneStr

(***************************************************************************)
(* Claims.                                                                 *)
(***************************************************************************)

\* C1: no partial commit. After a data-driven advance_phase call has returned or
\* raised, the merged artifact, the new current_phase and the PhaseTransition
\* record are all three persisted, or none of them is.
C1_NoPartialCommit ==
    \A w \in Workers :
        (Finished(w) /\ loc[w].mode = "data" /\ OnStoredPipeline(w)) =>
            \/ ArtifactPersisted(w) /\ PhasePersisted(w) /\ TransitionPersisted(w)
            \/ ~ArtifactPersisted(w) /\ ~PhasePersisted(w) /\ ~TransitionPersisted(w)

\* C2: when execute_phase returns a next_phase whose configuration is missing or
\* inactive, advance_phase raises an ExecutionError that names the next phase, the
\* previous phase and the pipeline id, and the stored pipeline and the transition
\* store are as they were before the call.
C2_InvalidNextPhaseAborts ==
    \A w \in Workers :
        NextPhaseUnresolvable(w) =>
            /\ pc[w] = "failed"
            /\ loc[w].err = Some(
                  [type |-> "ExecutionError",
                   message |-> "Invalid next_phase configuration: "
                               \o Get(loc[w].result).next_phase,
                   phase_name |-> snap[w].store[loc[w].pid].current_phase,
                   pipeline_id |-> loc[w].pid,
                   text |-> "[" \o loc[w].pid \o ":"
                            \o snap[w].store[loc[w].pid].current_phase
                            \o "] Invalid next_phase configuration: "
                            \o Get(loc[w].result).next_phase])
            /\ StoresUntouched(w)

C2_Witness ==
    \E w \in Workers : NextPhaseUnresolvable(w) /\ pc[w] = "failed"

\* C3: execute_phase writes neither the pipeline store nor the transition store;
\* while a call is inside execute_phase, and after execute_phase has raised
\* (ConfigurationError, PromptBuildError, LLMError, ParseError or the generic
\* ExecutionError), the stores are as they were when the call started, and the
\* call ends with that error.
C3_OnlyCommitterMutates ==
    \A w \in Workers :
        /\ (pc[w] \in ExecutePcs \/ pc[w] = "validate_next") => StoresUntouched(w)
        /\ ExecuteFailed(w) =>
              /\ StoresUntouched(w)
              /\ IsSome(loc[w].err)
              /\ Get(loc[w].err).type \in
                    {"ConfigurationError", "PromptBuildError", "LLMError", "ParseError",
                     "ExecutionError"}

C3_Witness ==
    \E w \in Workers : ExecuteFailed(w) /\ Get(loc[w].err).type = "ParseError"

\* C4: the stored state.artifacts map only grows. After a data-driven advance_phase
\* call, every artifact_type key stored before it is still stored, and if the call
\* committed, the stored state holds the new artifact under its artifact_type.
C4_ArtifactsOnlyGrow ==
    \A w \in Workers :
        (Finished(w) /\ loc[w].mode = "data" /\ OnStoredPipeline(w)) =>
            /\ StoredArtifactKeys(snap[w].store[loc[w].pid])
                  \subseteq StoredArtifactKeys(store[loc[w].pid])
            /\ pc[w] = "done" => ArtifactPersisted(w)

\* C5 as stated: in every reachable state the stored current_phase of every
\* pipeline names an active phase configuration or is "complete".
C5_CurrentPhaseAlwaysConfigured ==
    \A p \in PipelineIds : ValidPhase(configs, store[p].current_phase)

\* C5 as amended: with the feature flag on (data-driven mode), in every reachable
\* state the stored current_phase of every pipeline names an active phase
\* configuration or is "complete"; in particular a committed data-driven advance
\* never stores a current_phase whose configuration is missing or inactive.
C5_DataDrivenPhaseConfigured ==
    env.flag => \A p \in PipelineIds : ValidPhase(configs, store[p].current_phase)

C5_Witness ==
    \E w \in Workers :
        /\ pc[w] = "done"
        /\ loc[w].mode = "data"
        /\ store[loc[w].pid].current_phase # "complete"
        /\ IsActivePhase(configs, store[loc[w].pid].current_phase)

\* C6: one PhaseTransition record per committed change of current_phase. Whenever
\* no call is between its update_state and its transition write, the records are,
\* in order, the (from, to) pairs of the committed changes of current_phase.
C6_OneTransitionPerChange ==
    (\A w \in Workers : pc[w] \notin {"create_transition", "legacy_create"}) =>
        /\ Len(transitions) = Len(hist.updates)
        /\ \A i \in 1..Len(transitions) :
              /\ transitions[i].from_state = hist.updates[i].from
              /\ transitions[i].to_state = hist.updates[i].to

\* C7: for a terminal phase (configuration with next_phase = None) execute_phase
\* returns next_phase = None, and the committing advance_phase stores
\* current_phase = "complete" and appends a PhaseTransition to "complete".
C7_TerminalPhaseCompletes ==
    \A w \in Workers :
        TerminalPhaseExecuted(w) =>
            /\ Get(loc[w].result).next_phase = NoneStr
            /\ pc[w] = "done" =>
                  /\ store[loc[w].pid].current_phase = "complete"
                  /\ Len(transitions) = Len(snap[w].transitions) + 1
                  /\ transitions[Len(transitions)].to_state = "complete"
                  /\ transitions[Len(transitions)].from_state = loc[w].phase_name

C7_Witness ==
    \E w \in Workers : TerminalPhaseExecuted(w) /\ pc[w] = "done"

\* C8: commits are serialized per pipeline. No two PhaseTransition records come
\* from calls that read the same occurrence of current_phase (the same number of
\* committed updates of the pipeline).
C8_CommitsSerialized ==
    \A i, j \in 1..Len(hist.reads) : i # j => hist.reads[i] # hist.reads[j]

\* C9: a successful execute_phase run has invoked configuration loader, prompt
\* builder, LLM caller, response parser and usage recorder, in this order, each
\* exactly once.
C9_CollaboratorOrder ==
    \A w \in Workers : IsSome(loc[w].result) => calls[w] = CollaboratorOrder

C9_Witness ==
    \E w \in Workers : IsSome(loc[w].result) /\ Get(loc[w].recorded) = FALSE

\* C10: execute_phase fails with the one typed error of its first failing step.
\* The collaborators invoked are always a prefix of the fixed order (each at most
\* once, none after the failing step); a failure at step 1 is the loader's
\* ConfigurationError unchanged, at step 2 a ValueError becomes PromptBuildError
\* with the same message, at step 3 LLMError embeds the invoker's error text, at
\* step 4 ParseError embeds the diagnostics joined in order with "; ".
C10_TypedFailureOfFirstFailingStep ==
    \A w \in Workers :
        /\ Len(calls[w]) <= Len(CollaboratorOrder)
        /\ calls[w] = SubSeq(CollaboratorOrder, 1, Len(calls[w]))
        /\ ExecuteFailed(w) =>
              LET e == Get(loc[w].err)
                  ctx == "[" \o loc[w].pid \o ":" \o loc[w].phase_name \o "] "
              IN
              CASE Len(calls[w]) = 1 ->
                      /\ e.type = "ConfigurationError"
                      /\ \E f \in BOOLEAN :
                            Some(e) = load_config(configs, loc[w].phase_name, f).error
                [] Len(calls[w]) = 2 ->
                      /\ IsSome(loc[w].caught)
                      /\ Get(loc[w].caught).kind = "ValueError" =>
                            /\ e.type = "PromptBuildError"
                            /\ e.message = Get(loc[w].caught).message
                            /\ e.text = ctx \o Get(loc[w].caught).message
                [] Len(calls[w]) = 3 ->
                      /\ ~Get(loc[w].llm).success
                      /\ e.type = "LLMError"
                      /\ e.text = ctx \o "LLM call failed: " \o Get(loc[w].llm).error
                [] Len(calls[w]) = 4 ->
                      LET m == Get(loc[w].parsed).error_messages IN
                      /\ ~Get(loc[w].parsed).success
                      /\ e.type = "ParseError"
                      /\ e.text = ctx \o "Parse failed: " \o
                            (IF Len(m) = 1 THEN m[1] ELSE m[1] \o "; " \o m[2])
                [] OTHER -> FALSE

C10_Witness ==
    \E w \in Workers :
        /\ ExecuteFailed(w)
        /\ Len(calls[w]) = 4
        /\ Len(Get(loc[w].parsed).error_messages) = 2

(***************************************************************************)
(* The arguments of execute_phase, as views of the local pipeline object.  *)
(***************************************************************************)
\* pipeline_state = pipeline.state or {}
PipelineStateArg(pipeline) ==
    IF pipeline.state.kind = "dict" /\ pipeline.state.has_artifacts
    THEN pipeline.state ELSE StateDict(FALSE, EmptyMap)

\* artifacts = pipeline.state.get("artifacts", {}) if pipeline.state else {}
ArtifactsArg(pipeline) ==
    IF pipeline.state.kind = "dict" /\ pipeline.state.has_artifacts
    THEN pipeline.state.artifacts ELSE EmptyMap

\* the call is inside execute_phase, or execute_phase has just returned or raised
InOrAfterExecute(w) ==
    \/ pc[w] \in ExecutePcs
    \/ pc[w] = "validate_next"
    \/ ExecuteFailed(w)

\* C11: an exception raised inside execute_phase that is none of ConfigurationError,
\* PromptBuildError, LLMError and ParseError (and is not the prompt builder's
\* ValueError, which step 2 turns into PromptBuildError) leaves execute_phase as an
\* ExecutionError that carries phase_name and pipeline_id and whose message holds the
\* fault's type name and message; the generic ExecutionError is raised for such a
\* fault only, never in place of one of the four specific kinds.
C11_CatchAllWrapsUnexpected ==
    \A w \in Workers :
        ExecuteFailed(w) =>
            LET e == Get(loc[w].err)
                unexpected == IsSome(loc[w].caught) /\ Get(loc[w].caught).kind # "ValueError"
            IN
            /\ unexpected =>
                  /\ e.type = "ExecutionError"
                  /\ e.phase_name = loc[w].phase_name
                  /\ e.pipeline_id = loc[w].pid
                  /\ e.message = "Unexpected internal error: " \o Get(loc[w].caught).kind
                                 \o ": " \o Get(loc[w].caught).message
                  /\ e.text = "[" \o loc[w].pid \o ":" \o loc[w].phase_name \o "] "
                              \o e.message
            /\ e.type = "ExecutionError" => unexpected

C11_Witness ==
    \E w \in Workers :
        /\ ExecuteFailed(w)
        /\ IsSome(loc[w].caught)
        /\ Get(loc[w].caught).kind = "RuntimeError"

\* C12: every error that execute_phase raises carries both pipeline_id and
\* phase_name and renders as "[pipeline_id:phase_name] message".
C12_ErrorsCarryContext ==
    \A w \in Workers :
        ExecuteFailed(w) =>
            LET e == Get(loc[w].err) IN
            /\ e.pipeline_id = loc[w].pid
            /\ e.phase_name = loc[w].phase_name
            /\ e.text = "[" \o loc[w].pid \o ":" \o loc[w].phase_name \o "] " \o e.message

\* C13: a failed usage write does not change the outcome of execute_phase. The step
\* that records usage always ends with execute_phase returning, and the result it
\* returns (success, artifact, artifact_type, next_phase) is determined by what steps
\* 1 to 4 produced, whether the usage write succeeded or not.
C13_UsageFailureNonFatal ==
    [][\A w \in Workers :
          (pc[w] = "record_usage" /\ pc'[w] # "record_usage") =>
              /\ pc'[w] = "validate_next"
              /\ IsSome(loc'[w].result)
              /\ Get(loc'[w].result).success
              /\ Get(loc'[w].result).artifact = Get(Get(loc[w].parsed).data)
              /\ Get(loc'[w].result).artifact_type = Get(loc[w].config).artifact_type
              /\ Get(loc'[w].result).next_phase = Get(loc[w].config).next_phase]_vars

C13_Witness ==
    \E w \in Workers :
        /\ pc[w] = "validate_next"
        /\ loc[w].recorded = Some(FALSE)
        /\ Get(loc[w].result).success
        /\ usage = <<>>

\* C14: execute_phase does not mutate its pipeline_state and artifacts arguments.
\* While a call is inside execute_phase, and when execute_phase has returned or
\* raised, both arguments are what they were when they were passed.
C14_InputsNotMutated ==
    \A w \in Workers :
        InOrAfterExecute(w) =>
            /\ PipelineStateArg(Get(loc[w].pipeline))
                  = PipelineStateArg(snap[w].store[loc[w].pid])
            /\ ArtifactsArg(Get(loc[w].pipeline))
                  = ArtifactsArg(snap[w].store[loc[w].pid])

C14_Witness ==
    \E w \in Workers :
        /\ pc[w] = "validate_next"
        /\ ArtifactsArg(Get(loc[w].pipeline)) # EmptyMap

\* C15: every PhaseExecutionResult that execute_phase returns has success = True,
\* artifact = the parser's data, artifact_type and next_phase of the stored
\* configuration of the executed phase, prompt_id = the id the prompt builder
\* returned, llm_response_raw = the LLM response text as the caller returned it and
\* execution_time_ms = the time the caller measured.
C15_ResultAssembledFromSteps ==
    \A w \in Workers :
        IsSome(loc[w].result) =>
            LET r == Get(loc[w].result)
                row == Get(get_by_phase_name(configs, loc[w].phase_name))
            IN
            /\ r.success
            /\ r.error = NoneStr
            /\ Some(r.artifact) = Get(loc[w].parsed).data
            /\ r.artifact_type = row.artifact_type
            /\ r.next_phase = row.next_phase
            /\ r.prompt_id = Get(loc[w].prompt).id
            /\ r.llm_response_raw = Get(loc[w].llm).response_text
            /\ r.execution_time_ms = Get(loc[w].llm).execution_time_ms

C15_Witness ==
    \E w \in Workers :
        /\ IsSome(loc[w].result)
        /\ Get(loc[w].result).next_phase = "arch_phase"
        /\ Get(loc[w].result).artifact = "art_b"

(***************************************************************************)
(* The last parse call of the parser, and what each strategy of the list   *)
(* does on its text.                                                       *)
(***************************************************************************)
\* parse was called with a string, or with a string that is not only whitespace
ParsedString == IsSome(parser.input) /\ Get(parser.input).is_str

ParsedText == ParsedString /\ Strip(Get(parser.input).text) # <<>>

\* the positions of the strategies that return a value, and that raise, on the text
Capable(strategies, text) ==
    {i \in DOMAIN strategies : StrategyParse(strategies[i], text).kind = "value"}

Throwing(strategies, text) ==
    {i \in DOMAIN strategies : StrategyParse(strategies[i], text).kind = "raise"}

Least(S) == CHOOSE i \in S : \A j \in S : i <= j

\* "<StrategyName>: <message>" of the strategies at the positions S, in list order
RECURSIVE ThrownMessages(_, _, _)
ThrownMessages(strategies, text, i) ==
    IF i > Len(strategies) THEN <<>>
    ELSE LET r == StrategyParse(strategies[i], text) IN
         (IF r.kind = "raise" THEN <<strategies[i] \o ": " \o r.message>> ELSE <<>>)
         \o ThrownMessages(strategies, text, i + 1)

Reversed(seq) == [i \in 1..Len(seq) |-> seq[Len(seq) + 1 - i]]

\* C16: for a non-empty string on which some strategy of the configured list returns
\* a value, parse returns success, strategy_used is the name of the first such
\* strategy in list order, data is the value that strategy returns, and the
\* strategies invoked are those of the list up to the winner, none after it.
C16_FirstCapableStrategyWins ==
    (ParsedString /\ Get(parser.input).text # <<>>) =>
        LET text == Get(parser.input).text
            capable == Capable(parser.strategies, text)
            r == Get(parser.result)
        IN
        capable # {} =>
            /\ r.success
            /\ r.strategy_used = parser.strategies[Least(capable)]
            /\ r.data = Some(StrategyParse(parser.strategies[Least(capable)], text).data)
            /\ parser.invoked = SubSeq(parser.strategies, 1, Least(capable))

C16_Witness ==
    /\ ParsedText
    /\ Len(parser.strategies) = 3
    /\ Cardinality(Capable(parser.strategies, Get(parser.input).text)) = 2
    /\ Len(parser.invoked) = 2

\* C17: a strategy that raises does not stop the chain. parse returns a ParseResult
\* for every input; whenever a strategy raises and a later strategy of the list
\* returns a value, the result is success and the raising strategy was invoked
\* before the winner; when no strategy returns a value, every raised message is in
\* the result as "<StrategyName>: <message>".
C17_ThrowingStrategyDoesNotAbort ==
    (parser.constructed /\ IsSome(parser.input)) =>
        /\ IsSome(parser.result)
        /\ ParsedText =>
              LET text == Get(parser.input).text
                  capable == Capable(parser.strategies, text)
                  throwing == Throwing(parser.strategies, text)
                  r == Get(parser.result)
              IN
              /\ r.success = (capable # {})
              /\ \A i \in throwing :
                    (\E j \in capable : j > i) =>
                        /\ r.success
                        /\ Len(parser.invoked) > i
                        /\ parser.invoked[i] = parser.strategies[i]
              /\ capable = {} =>
                    \A i \in throwing :
                        \E m \in DOMAIN r.error_messages :
                            r.error_messages[m] =
                                parser.strategies[i] \o ": "
                                \o StrategyParse(parser.strategies[i], text).message

C17_Witness ==
    /\ ParsedText
    /\ Get(parser.result).success
    /\ \E i \in Throwing(parser.strategies, Get(parser.input).text) :
          i < Least(Capable(parser.strategies, Get(parser.input).text))

\* C18: parse of a non-string fails with exactly "Invalid input: expected string",
\* parse of an empty or whitespace-only string fails with exactly "Empty response
\* text", and in both cases no strategy is invoked.
C18_InputChecksComeFirst ==
    IsSome(parser.input) =>
        LET r == Get(parser.result) IN
        /\ ~Get(parser.input).is_str =>
              /\ r = [success |-> FALSE, data |-> None, strategy_used |-> NoneStr,
                      error_messages |-> <<"Invalid input: expected string">>]
              /\ parser.invoked = <<>>
        /\ (ParsedString /\ \A i \in DOMAIN Get(parser.input).text :
                                Get(parser.input).text[i] \in {"sp", "nl"}) =>
              /\ r = [success |-> FALSE, data |-> None, strategy_used |-> NoneStr,
                      error_messages |-> <<"Empty response text">>]
              /\ parser.invoked = <<>>

C18_Witness ==
    /\ ParsedString
    /\ Get(parser.input).text = <<"sp", "sp">>
    /\ ~Get(parser.result).success

\* C19 as stated: strategy_used is set iff success; on success data is not None and
\* error_messages is empty; on failure data is None and error_messages is the
\* messages of the raising strategies in list order, or the single message "All
\* strategies failed" when no strategy raised.
C19_ParseResultWellFormed ==
    IsSome(parser.input) =>
        LET r == Get(parser.result)
            text == Get(parser.input).text
            thrown == ThrownMessages(parser.strategies, text, 1)
        IN
        /\ (r.strategy_used # NoneStr) = r.success
        /\ r.success => (IsSome(r.data) /\ r.error_messages = <<>>)
        /\ ~r.success =>
              /\ r.data = None
              /\ r.error_messages # <<>>
              /\ r.error_messages =
                    IF Get(parser.input).is_str /\ thrown # <<>> THEN thrown
                    ELSE <<"All strategies failed">>

\* C19 as amended: as above, where on failure error_messages is the one diagnostic
\* of the input check when the input is not a string or is empty or whitespace
\* only, and otherwise the messages of the raising strategies in list order, or
\* "All strategies failed" when no strategy raised.
C19_ParseResultWellFormedByCase ==
    IsSome(parser.input) =>
        LET r == Get(parser.result)
            text == Get(parser.input).text
            thrown == ThrownMessages(parser.strategies, text, 1)
        IN
        /\ (r.strategy_used # NoneStr) = r.success
        /\ r.success => (IsSome(r.data) /\ r.error_messages = <<>>)
        /\ ~r.success =>
              /\ r.data = None
              /\ r.error_messages # <<>>
              /\ r.error_messages =
                    IF ~Get(parser.input).is_str THEN <<"Invalid input: expected string">>
                    ELSE IF Strip(text) = <<>> THEN <<"Empty response text">>
                    ELSE IF thrown # <<>> THEN thrown
                    ELSE <<"All strategies failed">>

C19_Witness ==
    /\ ParsedText
    /\ ~Get(parser.result).success
    /\ Len(Get(parser.result).error_messages) = 2

Embeddings(artifact) ==
    {Dumps(artifact, FALSE)}
    \cup {pre \o Fenced(Dumps(artifact, TRUE)) \o post :
             pre \in ProseSegments, post \in ProseSegments}
    \cup {pre \o Dumps(artifact, FALSE) \o post :
             pre \in ProseSegments, post \in ProseSegments}

\* C21: round trip of the default parser. For a structured artifact that is
\* serialized and embedded directly, inside a fenced block or inside surrounding
\* prose, parse returns success with data equal to the artifact and strategy_used
\* the first strategy of the list that can extract a value.
C21_RoundTrip ==
    (ParsedString /\ parser.strategies = DefaultStrategies) =>
        \A artifact \in StructuredArtifacts :
            Get(parser.input).text \in Embeddings(artifact) =>
                LET r == Get(parser.result)
                    capable == Capable(parser.strategies, Get(parser.input).text)
                IN
                /\ r.success
                /\ r.data = Some(artifact)
                /\ capable # {}
                /\ r.strategy_used = parser.strategies[Least(capable)]

\* C22: a parser always holds a non-empty ordered strategy list. Constructing it
\* with an empty list raises the ValueError and yields no parser; constructing it
\* without a list yields the order direct, fenced, fuzzy; a given non-empty list
\* is kept in its order.
C22_StrategyListNeverEmpty ==
    /\ parser.constructed => parser.strategies # <<>>
    /\ parser.arg # None =>
          LET arg == Get(parser.arg) IN
          /\ arg = Some(<<>>) =>
                /\ ~parser.constructed
                /\ parser.init_error = "Parser requires at least one strategy"
                /\ parser.result = None
          /\ arg = None =>
                /\ parser.constructed
                /\ parser.strategies = <<"DirectParseStrategy", "MarkdownFenceStrategy",
                                         "FuzzyBoundaryStrategy">>
          /\ (arg # None /\ arg # Some(<<>>)) =>
                /\ parser.constructed
                /\ parser.strategies = Get(arg)
          /\ parser.constructed <=> parser.init_error = NoneStr

\* the constructor was given an empty list and raised
C22_Witness ==
    /\ parser.arg = Some(Some(<<>>))
    /\ ~parser.constructed
    /\ parser.init_error # NoneStr

(***************************************************************************)
(* The call of load_config, once it has returned or raised.                *)
(***************************************************************************)
LoadConfigDone == loader.pc \in {"returned", "raised"}

\* the row of the repository for the phase asked for
LoadedRow == get_by_phase_name(loader.repo, loader.phase_name)

\* C23: load_config returns a PhaseConfig only when a configuration exists and is
\* active, with phase_name, role_name, artifact_type and next_phase copied from
\* the row; it raises the "not found" ConfigurationError when no row exists, the
\* "not active" one when the row is inactive, and the "Failed to load
\* configuration" one around a fault of the lookup; it looks the repository up
\* exactly once and changes neither the repository nor any store.
C23_LoadConfigContract ==
    [][/\ loader'.repo = loader.repo
       /\ UNCHANGED service_vars
       /\ (LoadConfigDone => LET row == LoadedRow IN
             /\ loader.lookups = 1
             /\ (loader.returned # None) # (loader.raised # None)
             /\ loader.returned # None <=>
                   (~loader.fault /\ row # None /\ Get(row).is_active)
             /\ loader.returned # None =>
                   LET config == Get(loader.returned) IN
                   /\ config.phase_name = Get(row).phase_name
                   /\ config.role_name = Get(row).role_name
                   /\ config.artifact_type = Get(row).artifact_type
                   /\ config.next_phase = Get(row).next_phase
             /\ loader.raised # None =>
                   LET e == Get(loader.raised) IN
                   /\ e.type = "ConfigurationError"
                   /\ e.phase_name = loader.phase_name
                   /\ e.message =
                        IF loader.fault
                        THEN "Failed to load configuration: connection lost"
                        ELSE IF row = None
                        THEN "Phase configuration not found: " \o loader.phase_name
                        ELSE "Phase configuration not active: " \o loader.phase_name)'
      ]_vars

\* a call that found an inactive row has raised
C23_Witness ==
    /\ loader.pc = "raised"
    /\ ~loader.fault
    /\ LoadedRow # None
    /\ ~Get(LoadedRow).is_active

\* C24: every failure of load_config is logged at error severity before it is
\* raised: the step that raises the ConfigurationError starts in a state whose
\* log already holds the error event of this failure.
C24_LoggedBeforeRaised ==
    [][(loader.raised = None /\ loader'.raised # None) =>
          /\ loader.log # <<>>
          /\ loader.log[Len(loader.log)].level = "error"
          /\ loader.log[Len(loader.log)].event =
                IF loader.fault
                THEN "Unexpected error loading config for " \o loader.phase_name
                     \o ": connection lost"
                ELSE IF LoadedRow = None
                THEN "Phase config not found: " \o loader.phase_name
                ELSE "Phase config not active: " \o loader.phase_name
      ]_vars

\* a failed lookup has been logged and then raised
C24_Witness ==
    /\ loader.pc = "raised"
    /\ loader.fault
    /\ loader.raised # None
    /\ Len(loader.log) = 1

(***************************************************************************)
(* The call of LLMCaller.call, once it has returned.                       *)
(***************************************************************************)
RECURSIVE FirstText(_)
\* the text of the first text block of a content, if there is one
FirstText(content) ==
    IF content = <<>> THEN None
    ELSE IF Head(content).type = "text" THEN Some(Head(content).text)
    ELSE FirstText(Tail(content))

\* C25: LLMCaller.call never raises: whatever the client does, it returns an
\* LLMCallResult. On failure success is false, error is "<type>: <message>" of the
\* exception, response_text and token_usage are null; on success response_text is
\* the first text segment of the response, token_usage holds the input and output
\* token counts, error is null. Exactly one of response_text and error is present,
\* and execution_time_ms is set in both cases.
C25_CallNeverRaises ==
    /\ caller.pc = "returned" <=> caller.result # None
    /\ caller.result # None =>
          LET r == Get(caller.result)
              o == Get(caller.outcome)
          IN
          /\ r.execution_time_ms = caller.elapsed_ms
          /\ (r.response_text # NoneStr) # (r.error # NoneStr)
          /\ r.success <=> r.error = NoneStr
          /\ o.kind = "raise" =>
                /\ ~r.success
                /\ r.error = o.type \o ": " \o o.message
          /\ r.success =>
                /\ o.kind = "response"
                /\ Some(r.response_text) = FirstText(o.content)
                /\ r.token_usage = Some([input_tokens |-> o.input_tokens,
                                         output_tokens |-> o.output_tokens])
          /\ ~r.success =>
                /\ r.response_text = NoneStr
                /\ r.token_usage = None
                /\ \E type \in {o.type, "IndexError", "AttributeError"} :
                      \E n \in 1..Len(r.error) :
                         SubSeq(r.error, 1, n) = type \o ": "

\* a call whose response holds two text blocks has returned
C25_Witness ==
    /\ caller.pc = "returned"
    /\ Get(caller.result).success
    /\ Len(Get(caller.outcome).content) = 2
    /\ Get(caller.outcome).content[2].type = "text"
    /\ Get(caller.outcome).content[2].text # Get(caller.outcome).content[1].text

(***************************************************************************)
(* The call of UsageRecorder.record_usage.                                 *)
(***************************************************************************)
\* C26: record_usage never raises. It returns true when the repository write
\* succeeds; when the write fails it returns false after exactly one warning that
\* carries pipeline_id, phase_name, role_name, prompt_id, error and
\* event = "usage_record_failure".
C26_RecordUsageNeverRaises ==
    /\ recorder.raised = None
    /\ recorder.pc # "raised"
    /\ recorder.pc \in {"return", "returned"} =>
          LET u == Get(recorder.usage) IN
          IF recorder.fault = None
          THEN /\ recorder.log = <<>>
               /\ recorder.rows = <<[pipeline_id |-> u.pipeline_id,
                                     prompt_id |-> u.prompt_id]>>
          ELSE /\ recorder.rows = <<>>
               /\ recorder.log =
                     <<[level |-> "warning", event |-> "usage_record_failure",
                        pipeline_id |-> u.pipeline_id, phase_name |-> u.phase_name,
                        role_name |-> u.role_name, prompt_id |-> u.prompt_id,
                        error |-> Get(recorder.fault)]>>
    /\ recorder.pc = "returned" => recorder.returned = Some(recorder.fault = None)

\* a call whose write failed has returned false
C26_Witness ==
    /\ recorder.pc = "returned"
    /\ recorder.fault # None
    /\ recorder.returned = Some(FALSE)
    /\ Len(recorder.log) = 1

(***************************************************************************)
(* Legacy mode.                                                            *)
(***************************************************************************)
\* a finished legacy call on a stored pipeline
LegacyFinished(w) ==
    /\ Finished(w)
    /\ loc[w].mode = "legacy"
    /\ OnStoredPipeline(w)

\* C27: legacy mode follows the order idle, pm_phase, arch_phase, ba_phase,
\* dev_phase, qa_phase, commit_phase, complete. A legacy advance_phase from a
\* non-terminal state persists the next state of the table and appends one
\* PhaseTransition from the old state to the new one (it fails on a fault of a
\* store only); from "complete" it fails and changes neither the state nor the
\* transitions.
C27_LegacyOrderFollowed ==
    \A w \in Workers :
        LegacyFinished(w) =>
            LET old == snap[w].store[loc[w].pid].current_phase
                successor == [p \in {"idle", "pm_phase", "arch_phase", "ba_phase",
                                     "dev_phase", "qa_phase", "commit_phase"} |->
                                CASE p = "idle" -> "pm_phase"
                                  [] p = "pm_phase" -> "arch_phase"
                                  [] p = "arch_phase" -> "ba_phase"
                                  [] p = "ba_phase" -> "dev_phase"
                                  [] p = "dev_phase" -> "qa_phase"
                                  [] p = "qa_phase" -> "commit_phase"
                                  [] p = "commit_phase" -> "complete"]
            IN
            IF old = "complete"
            THEN /\ pc[w] = "failed"
                 /\ Get(loc[w].err).type = "ValueError"
                 /\ Get(loc[w].err).message = "Cannot advance from complete"
                 /\ StoresUntouched(w)
            ELSE /\ old \in DOMAIN successor
                 /\ pc[w] = "failed" => Get(loc[w].err) = StoreFault
                 /\ pc[w] = "done" =>
                       /\ store[loc[w].pid].current_phase = successor[old]
                       /\ store[loc[w].pid].state = StateStr(successor[old])
                       /\ Len(transitions) = Len(snap[w].transitions) + 1
                       /\ SubSeq(transitions, 1, Len(snap[w].transitions))
                             = snap[w].transitions
                       /\ transitions[Len(transitions)].pipeline_id = loc[w].pid
                       /\ transitions[Len(transitions)].from_state = old
                       /\ transitions[Len(transitions)].to_state = successor[old]

\* a legacy call has advanced a pipeline from dev_phase
C27_Witness ==
    \E w \in Workers :
        /\ LegacyFinished(w)
        /\ pc[w] = "done"
        /\ snap[w].store[loc[w].pid].current_phase = "dev_phase"
        /\ store[loc[w].pid].current_phase = "qa_phase"

(***************************************************************************)
(* The authentication router: the request just served.                     *)
(***************************************************************************)
\* the pending tokens a token value matches
MatchingTokens(pending_tokens, token) ==
    {r \in pending_tokens : bcrypt_checkpw(token, r.token_hash)}

\* C28: a magic-link token is single-use. A GET /magic-login succeeds only with a
\* token that never succeeded before; the successful request creates exactly one
\* session, for the email of the token, sets its id as the cookie and deletes the
\* pending token; every other request, and so every later request with that
\* token, returns 401 and creates no session.
C28_TokenSingleUse ==
    [][(auth'.last # None /\ Get(auth'.last).endpoint = "GET /magic-login") =>
          LET served == Get(auth'.last)
              token == Get(served.token)
              rows == MatchingTokens(auth.pending_tokens, token)
          IN
          IF served.response.status = 303
          THEN /\ token \notin auth.redeemed
               /\ Cardinality(rows) = 1
               /\ MatchingTokens(auth'.pending_tokens, token) = {}
               /\ served.response.location = "/workspaces"
               /\ \E session \in auth'.sessions \ auth.sessions :
                     /\ auth'.sessions = auth.sessions \cup {session}
                     /\ \A r \in rows : session.email = r.email
                     /\ served.response.set_cookie =
                           Some([value |-> Some(session.id), max_age |-> SevenDays])
          ELSE /\ served.response.status = 401
               /\ auth'.sessions = auth.sessions
               /\ auth'.pending_tokens = auth.pending_tokens
      ]_vars

\* a token that has logged in once is presented again and refused
C28_Witness ==
    /\ auth.last # None
    /\ Get(auth.last).endpoint = "GET /magic-login"
    /\ Get(auth.last).response.status = 401
    /\ Get(Get(auth.last).token) \in auth.redeemed

\* C29: GET /me and get_current_user authenticate a request only if its session_id
\* cookie names a stored, unexpired session, and then return that session's
\* email. Without a cookie the answer is 401 "Not authenticated", with an unknown
\* id 401 "Invalid session", with an expired session 401 "Session expired" and
\* the session is deleted by this request.
C29_SessionAuthentication ==
    [][(auth'.last # None /\
        Get(auth'.last).endpoint \in {"GET /me", "get_current_user"}) =>
          LET served == Get(auth'.last)
              cookie == served.cookie
              response == served.response
              stored == IF cookie = None THEN {}
                        ELSE {s \in auth.sessions : s.id = Get(cookie)}
          IN
          /\ cookie = None =>
                /\ response.status = 401
                /\ response.detail = "Not authenticated"
                /\ auth'.sessions = auth.sessions
          /\ (cookie # None /\ stored = {}) =>
                /\ response.status = 401
                /\ response.detail = "Invalid session"
                /\ auth'.sessions = auth.sessions
          /\ \A s \in stored :
                IF auth.now > s.expires_at
                THEN /\ response.status = 401
                     /\ response.detail = "Session expired. Please log in again."
                     /\ auth'.sessions = auth.sessions \ {s}
                ELSE /\ response.status = 200
                     /\ response.email = s.email
                     /\ auth'.sessions = auth.sessions
          /\ response.status \in {200, 401}
          /\ response.status = 200 => stored # {}
      ]_vars

\* a request with the cookie of an expired session was refused and the session is
\* gone from the store
C29_Witness ==
    /\ auth.last # None
    /\ Get(auth.last).endpoint = "GET /me"
    /\ Get(auth.last).response.detail = "Session expired. Please log in again."
    /\ Get(Get(auth.last).cookie) \in 1..auth.created
    /\ \A s \in auth.sessions : s.id # Get(Get(auth.last).cookie)

\* C30: POST /logout deletes the session named by the session_id cookie, clears the
\* session cookie and redirects to /login, with or without a session; after a
\* logout the session id never authenticates again.
C30_LogoutEndsSession ==
    auth.last # None =>
        LET served == Get(auth.last) IN
        /\ served.endpoint = "POST /logout" =>
              /\ served.response.status = 303
              /\ served.response.location = "/login"
              /\ served.response.set_cookie = Some([value |-> None, max_age |-> 0])
              /\ served.cookie # None =>
                    \A s \in auth.sessions : s.id # Get(served.cookie)
        /\ (/\ served.endpoint \in {"GET /me", "get_current_user"}
            /\ served.cookie # None
            /\ Get(served.cookie) \in auth.closed) =>
              served.response.status = 401

\* C31: POST /login answers a malformed email (one that fails the format test of
\* the handler) with 400 and a rate-limited one with 429 before it touches the
\* token store: in both cases no pending token is created or deleted and no email
\* is sent; only an accepted request replaces the pending token of the email and
\* sends the link.
C31_LoginRejectsBeforeTokenStore ==
    [][(auth'.last # None /\ Get(auth'.last).endpoint = "POST /login") =>
          LET served == Get(auth'.last)
              email == Normalize(Get(served.form))
              status == served.response.status
              untouched == /\ auth'.pending_tokens = auth.pending_tokens
                           /\ auth'.mailed = auth.mailed
          IN
          /\ ~ValidEmail(email) <=> status = 400
          /\ status \in {400, 429} => untouched
          /\ ~untouched =>
                /\ status \in {200, 500}
                /\ \E token \in 1..auth'.issued :
                      /\ auth'.mailed = auth.mailed \cup {[email |-> email, token |-> token]}
                      /\ MatchingTokens(auth.pending_tokens, token) = {}
                      /\ \E r \in MatchingTokens(auth'.pending_tokens, token) :
                            /\ r.email = email
                            /\ auth'.pending_tokens =
                                  {p \in auth.pending_tokens : p.email # email} \cup {r}
      ]_vars

\* a rate-limited request for an email whose link is pending, and a refused
\* address before it
C31_Witness ==
    /\ auth.last # None
    /\ Get(auth.last).endpoint = "POST /login"
    /\ Get(auth.last).response.status = 429
    /\ \E r \in auth.pending_tokens : r.email = Normalize(Get(Get(auth.last).form))
    /\ auth.mailed # {}

\* the phase value a finished call of worker w has committed
CommittedPhase(w) ==
    IF loc[w].mode = "legacy" THEN loc[w].next_state
    ELSE NewPhase(Get(loc[w].result).next_phase)

\* C32: after every committed advance_phase, in either mode, the stored state of
\* the pipeline equals its stored current_phase (both hold the new phase value, or
\* "complete" for a terminal phase), and the response reports as previous_phase the
\* current_phase stored before the call and as current_phase the one stored after.
C32_StateEqualsPhaseAfterCommit ==
    \A w \in Workers :
       pc[w] = "done" =>
          LET row == store[loc[w].pid]
              before == snap[w].store[loc[w].pid]
              response == Get(loc[w].response)
          IN
          /\ row.state.kind = "str"
          /\ row.state.value = row.current_phase
          /\ row.current_phase = CommittedPhase(w)
          /\ response.previous_phase = before.current_phase
          /\ response.current_phase = row.current_phase
          /\ response.state = row.state

\* a data-driven call has committed a terminal phase
C32_Witness ==
    \E w \in Workers :
       /\ pc[w] = "done"
       /\ loc[w].mode = "data"
       /\ Get(loc[w].result).next_phase = NoneStr
       /\ store[loc[w].pid].current_phase = "complete"
       /\ snap[w].store[loc[w].pid].current_phase \in ConfigPhases

(***************************************************************************)
(* MarkdownFenceStrategy on its own: a text of fenced blocks and prose is  *)
(* given to parse, and what parse gives (a value, None, or an exception it *)
(* lets through) is kept next to the text.                                 *)
(***************************************************************************)
\* the pieces of a text: fenced blocks that parse (a long and a short one), a block
\* json.loads refuses, a block nested beyond the recursion limit, a block holding
\* null, and prose
FencePieces ==
    {Fenced(Dumps(a, TRUE)) : a \in StructuredArtifacts}
    \cup {Fenced(<<"{", "}">>), Fenced(<<"{", "b", "}", "x">>), Fenced(<<"{", "deep", "}">>),
          Fenced(<<"null">>), <<"x">>}

RECURSIVE FenceTextsOf(_)
FenceTextsOf(n) ==
    IF n = 0 THEN {<<>>}
    ELSE LET shorter == FenceTextsOf(n - 1) IN
         shorter \cup {t \o g : t \in shorter, g \in FencePieces}

FenceTexts == FenceTextsOf(MaxBlocks)

FenceInit ==
    /\ ServiceAtRest
    /\ loader = NoLoader
    /\ caller = NoCaller
    /\ recorder = NoRecorder
    /\ auth = NoAuth
    /\ \E text \in FenceTexts :
          parser = [strategy |-> "MarkdownFenceStrategy", text |-> text, outcome |-> None]

\* MarkdownFenceStrategy().parse(text)
MarkdownFenceParse ==
    /\ parser.outcome = None
    /\ parser' = [parser EXCEPT !.outcome = Some(StrategyParse(parser.strategy, parser.text))]
    /\ UNCHANGED <<service_vars, loader, caller, recorder, auth>>

FenceNext == MarkdownFenceParse

FenceSpec == FenceInit /\ [][FenceNext]_vars

\* json.loads accepts the stripped block
BlockParses(block) == Loads(Strip(block)).kind \in {"value", "none"}

\* C33: the fenced-block strategy tries the candidates in order of decreasing length
\* and returns the parse of the first that parses: the longest parseable block
\* wins, a longer block that does not parse does not prevent a shorter parseable
\* one from being returned, and a text without a parseable fenced block gives null.
C33_LongestParseableFenceWins ==
    parser.outcome # None =>
        LET blocks == FindAll(parser.text, 1)
            parseable == {i \in DOMAIN blocks : BlockParses(blocks[i])}
            outcome == Get(parser.outcome)
        IN
        /\ blocks = <<>> => outcome = NoneOutcome
        /\ parseable # {} =>
              \E i \in parseable :
                 /\ \A j \in parseable : TextLen(blocks[j]) <= TextLen(blocks[i])
                 /\ outcome = Loads(Strip(blocks[i]))

\* the artifacts a stored row holds, as pairs of key and value
StoredArtifacts(row) ==
    {<<k, row.state.artifacts[k]>> : k \in StoredArtifactKeys(row)}

DataDrivenPcs ==
    {"load_config", "build_prompt", "call_llm", "parse", "record_usage", "validate_next",
     "update_state", "create_transition"}

LegacyPcs == {"legacy_update", "legacy_create"}

\* what advance_phase does in the mode the flag selects, for the call of worker w;
\* unchanged says whether the stored artifacts are to be the same as before the call
\* or only to gain nothing
ModeSelected(w, unchanged) ==
    /\ loc[w].mode = (IF env.flag THEN "data" ELSE "legacy")
    /\ ~env.flag =>
          /\ pc[w] \notin DataDrivenPcs
          /\ calls[w] = <<>>
          /\ usage = <<>>
          /\ \A p \in PipelineIds :
                IF unchanged
                THEN StoredArtifacts(store[p]) = StoredArtifacts(snap[w].store[p])
                ELSE StoredArtifacts(store[p]) \subseteq StoredArtifacts(snap[w].store[p])
          /\ \A i \in DOMAIN transitions :
                transitions[i].reason = "Phase advancement (legacy)"
    /\ env.flag =>
          /\ pc[w] \notin LegacyPcs
          /\ \A i \in DOMAIN transitions :
                transitions[i].reason = "Data-driven phase execution"
    /\ (env.flag /\ (~env.sdk \/ ~env.api_key \/ loc[w].pid \notin PipelineIds)) =>
          /\ pc[w] = "failed"
          /\ calls[w] = <<>>
          /\ StoresUntouched(w)

TimesCalled(w, name) == Cardinality({i \in DOMAIN calls[w] : calls[w][i] = name})

\* configuration, prompt, LLM and parse steps of the call of worker w all succeeded
StepsSucceeded(w) == IsSome(loc[w].parsed) /\ Get(loc[w].parsed).success

\* the call of worker w was aborted for an invalid next_phase
AbortedForNextPhase(w) ==
    /\ pc[w] = "failed"
    /\ IsSome(loc[w].result)
    /\ loc[w].err = Some(InvalidNextPhaseErrorOf(Get(loc[w].result).next_phase,
                                                 loc[w].previous_phase, loc[w].pid))

\* the usage row the recorder stores for the call of worker w
UsageRecordOf(w) == [pipeline_id |-> loc[w].pid, prompt_id |-> Get(loc[w].prompt).id]

\* where a data-driven call stands with its usage record; written says whether the
\* recorder, once invoked, is taken to have written the record
UsageDiscipline(w, written) ==
    /\ TimesCalled(w, "usage_recorder") <= 1
    /\ TimesCalled(w, "llm_caller") <= 1
    /\ pc[w] \in {"validate_next", "update_state", "create_transition", "done"} =>
          TimesCalled(w, "usage_recorder") = 1
    /\ TimesCalled(w, "usage_recorder") = 0 => StoresUntouched(w)
    /\ pc[w] = "validate_next" => StoresUntouched(w)
    /\ Finished(w) => (TimesCalled(w, "usage_recorder") = 1 <=> StepsSucceeded(w))
    /\ AbortedForNextPhase(w) =>
          /\ TimesCalled(w, "llm_caller") = 1
          /\ TimesCalled(w, "usage_recorder") = 1
    /\ TimesCalled(w, "usage_recorder") = 1 =>
          /\ IsSome(loc[w].recorded)
          /\ Get(loc[w].recorded) =>
                \E i \in DOMAIN usage : usage[i] = UsageRecordOf(w)
          /\ written => Get(loc[w].recorded)

\* the usage table changes only when the recorder writes: one record is appended
\* when the write succeeds, nothing when it fails, and no other step of a call
\* removes or alters a record
UsageWrittenOnlyByRecorder ==
    /\ \A w \in Workers :
          (pc[w] = "record_usage" /\ pc'[w] # "record_usage") =>
             /\ pc'[w] = "validate_next"
             /\ usage' = IF Get(loc'[w].recorded) THEN Append(usage, UsageRecordOf(w))
                         ELSE usage
    /\ usage' # usage => \E w \in Workers : pc[w] = "record_usage"

\* C35: within one data-driven advance_phase the usage recorder is invoked iff the
\* configuration, prompt, LLM and parse steps all succeeded, at most once, and always
\* before the next-phase validation and the commit; the record is written when the
\* write succeeds; an advance aborted for an invalid next_phase has performed
\* exactly one LLM call and one recording, and no later step undoes the record.
C35_UsageRecordedBeforeCommit ==
    [][/\ UsageWrittenOnlyByRecorder
       /\ \A w \in Workers :
             (pc'[w] # "idle" /\ loc'[w].mode = "data") => UsageDiscipline(w, FALSE)'
      ]_vars

\* C35 as stated: every call whose four steps succeeded has written its usage
\* record, a call aborted for an invalid next_phase among them
C35_UsageRecordWritten ==
    \A w \in Workers :
       (pc[w] # "idle" /\ loc[w].mode = "data") => UsageDiscipline(w, TRUE)

\* a call was aborted for an invalid next_phase after its usage record was written
C35_Witness ==
    \E w \in Workers :
       /\ AbortedForNextPhase(w)
       /\ loc[w].recorded = Some(TRUE)
       /\ usage # <<>>

\* the call of worker w began when the stored current_phase of its pipeline was
\* "complete"
BeganAtComplete(w) ==
    /\ pc[w] # "idle"
    /\ loc[w].pid \in PipelineIds
    /\ snap[w].store[loc[w].pid].current_phase = "complete"

\* C36: "complete" is absorbing: once the stored current_phase of a pipeline is
\* "complete", every later advance_phase on it fails, in either mode, changes
\* neither current_phase nor state and appends no PhaseTransition (no phase
\* configuration is named "complete").
C36_CompleteIsAbsorbing ==
    [][/\ \A p \in PipelineIds :
             store[p].current_phase = "complete" => store'[p] = store[p]
       /\ \A w \in Workers :
             BeganAtComplete(w)' =>
                /\ pc'[w] \in {"load_config", "failed"}
                /\ StoresUntouched(w)'
       /\ \A w \in Workers :
             (BeganAtComplete(w) /\ pc'[w] = "idle") => pc[w] = "failed"
      ]_vars

\* an advance has failed on a pipeline that an earlier advance completed
C36_Witness ==
    \E w \in Workers :
       /\ BeganAtComplete(w)
       /\ pc[w] = "failed"
       /\ transitions # <<>>
       /\ transitions[Len(transitions)].to_state = "complete"

\* the current_phase the pipeline had before the first advance
InitialPhase(p) ==
    IF hist.updates = <<>> THEN store[p].current_phase ELSE hist.updates[1].from

\* C37: under sequential calls the PhaseTransition records of a pipeline form a
\* chain: the to_state of each record is the from_state of the next, the first
\* from_state is the initial current_phase and the last to_state is the stored
\* current_phase.
C37_TransitionsFormChain ==
    Quiet =>
       \A p \in PipelineIds :
          LET records == SelectSeq(transitions, LAMBDA t : t.pipeline_id = p) IN
          /\ \A i \in 1..(Len(records) - 1) :
                records[i].to_state = records[i + 1].from_state
          /\ records # <<>> =>
                /\ records[1].from_state = InitialPhase(p)
                /\ records[Len(records)].to_state = store[p].current_phase

(***************************************************************************)
(* Progress of the data-driven mode: the flag on, SDK and API key present, *)
(* pm_phase -> arch_phase -> terminal configured and active, and requests  *)
(* served one after the other for as long as requests arrive.              *)
(***************************************************************************)
\* an acyclic chain of two active configurations ending in a terminal one
TwoPhaseChain ==
    [p \in PipelineStates |->
        IF p = "pm_phase" THEN Some(ConfigRow(p, "arch_phase", TRUE))
        ELSE IF p = "arch_phase" THEN Some(ConfigRow(p, NoneStr, TRUE))
        ELSE None]

ProgressInit ==
    /\ env = [flag |-> TRUE, sdk |-> TRUE, api_key |-> TRUE]
    /\ configs = TwoPhaseChain
    /\ \E phase \in ConfigPhases :
          \E st \in InitialStates(phase) \ {StateStr(phase)} :
             store = [p \in PipelineIds |-> PipelineRow(phase, st)]
    /\ transitions = <<>>
    /\ usage = <<>>
    /\ pc = [w \in Workers |-> "idle"]
    /\ loc = [w \in Workers |-> InitLoc]
    /\ calls = [w \in Workers |-> <<>>]
    /\ log = [w \in Workers |-> <<>>]
    /\ snap = [w \in Workers |-> [store |-> store, transitions |-> transitions]]
    /\ hist = [updates |-> <<>>, reads |-> <<>>]
    /\ nreq = 0
    /\ parser = NoParser
    /\ loader = NoLoader
    /\ caller = NoCaller
    /\ recorder = NoRecorder
    /\ auth = NoAuth

DataDrivenStep(w) ==
    \/ LoadConfigStep(w)
    \/ BuildPromptStep(w)
    \/ CallLLMStep(w)
    \/ ParseStep(w)
    \/ RecordUsageStep(w)
    \/ ValidateNextPhase(w)
    \/ UpdateStateStep(w)
    \/ CreateTransitionStep(w)
    \/ Return(w)

ProgressNext ==
    /\ \E w \in Workers :
          \/ \E pid \in RequestIds : SequentialAdvancePhase(w, pid)
          \/ DataDrivenStep(w)
    /\ UNCHANGED unit_vars

\* a request that arrives is served and a call in progress takes its next step
ProgressSpec == ProgressInit /\ [][ProgressNext]_vars /\ WF_vars(ProgressNext)

\* a collaborator or store call of worker w has failed, or the request is not for
\* a stored pipeline
Disturbed(w) ==
    \/ ExecuteFailed(w)
    \/ AbortedForNextPhase(w)
    \/ pc[w] = "failed" /\ loc[w].err = Some(StoreFault)
    \/ pc[w] # "idle" /\ loc[w].pid \notin PipelineIds

\* C38: progress in data-driven mode: for a pipeline whose current_phase starts an
\* acyclic chain of active configurations ending in a terminal one, if every
\* collaborator call succeeds then consecutive advance_phase calls each commit one
\* transition and the pipeline eventually reaches "complete".
C38_DataDrivenProgress ==
    <>(\/ \E w \in Workers : Disturbed(w)
       \/ \A p \in PipelineIds : store[p].current_phase = "complete")

\* a later link was issued for the email the link with this token was issued for
Superseded(token) ==
    \E old, new \in auth.mailed :
       /\ old.token = token
       /\ new.email = old.email
       /\ new.token > token

\* C39: after any sequence of sequential POST /login requests at most one pending
\* token is stored per email: issuing a new link deletes every earlier pending
\* token of that email, so an older link can no longer create a session.
C39_OnePendingTokenPerEmail ==
    /\ \A r1, r2 \in auth.pending_tokens : r1.email = r2.email => r1 = r2
    /\ \A m \in auth.mailed :
          Superseded(m.token) => MatchingTokens(auth.pending_tokens, m.token) = {}
    /\ (auth.last # None /\ Get(auth.last).endpoint = "GET /magic-login"
        /\ Superseded(Get(Get(auth.last).token))) =>
          /\ Get(auth.last).response.status = 401
          /\ Get(auth.last).response.set_cookie = None

\* the older of two links of one email is presented, unused and unexpired, and is
\* refused
C39_Witness ==
    /\ auth.last # None
    /\ Get(auth.last).endpoint = "GET /magic-login"
    /\ Superseded(Get(Get(auth.last).token))
    /\ Get(Get(auth.last).token) \notin auth.redeemed
    /\ auth.now < SevenDays
    /\ Get(auth.last).response.status = 401

\* the stored pending tokens that match the token and have not expired
ValidTokens(token) ==
    {r \in MatchingTokens(auth.pending_tokens, token) : r.expires_at > auth.now}

\* C40: sessions are created only by consuming a valid token: a session enters the
\* store only in a GET /magic-login whose token matched a stored, unexpired pending
\* token; it carries the email of that token, and the token is deleted in the same
\* step; no request with an unknown or expired token creates a session.
C40_SessionsOnlyFromValidTokens ==
    [][/\ ~(auth'.sessions \subseteq auth.sessions) =>
             /\ auth'.last # None
             /\ Get(auth'.last).endpoint = "GET /magic-login"
             /\ \E r \in ValidTokens(Get(Get(auth'.last).token)) :
                   /\ r \notin auth'.pending_tokens
                   /\ auth'.pending_tokens = auth.pending_tokens \ {r}
                   /\ \E session \in auth'.sessions \ auth.sessions :
                         /\ auth'.sessions \ auth.sessions = {session}
                         /\ session.email = r.email
                         /\ \A s \in auth.sessions : s.id # session.id
       /\ (/\ auth'.last # None
           /\ auth'.last # auth.last
           /\ Get(auth'.last).endpoint = "GET /magic-login"
           /\ ValidTokens(Get(Get(auth'.last).token)) = {}) =>
             /\ auth'.sessions \subseteq auth.sessions
             /\ Get(auth'.last).response.status = 401
      ]_vars

\* a link that has expired is presented and refused while a session made by another
\* link is stored
C40_Witness ==
    /\ auth.last # None
    /\ Get(auth.last).endpoint = "GET /magic-login"
    /\ Get(auth.last).response.status = 401
    /\ MatchingTokens(auth.pending_tokens, Get(Get(auth.last).token)) # {}
    /\ auth.sessions # {}

====
